---- MODULE Spec2Model ----
(***************************************************************************)
(* A model of the unified gRPC + REST sample server (server/main.go).     *)
(*                                                                         *)
(* One HTTP server listens on a single port.  Every request is classified *)
(* by createMultiplexedHandler and handed either to the gRPC server, which *)
(* runs one of the eight service methods (unary, server-streaming,         *)
(* client-streaming, bidirectional; hello and goodbye), or to the REST     *)
(* router.  The service methods are modelled statement by statement: each  *)
(* SendHeader, Recv, Send, Sleep, SetTrailer and return is one step, so    *)
(* that the peer (sending messages, half-closing, disconnecting) can       *)
(* interleave with the handler exactly where the Go code can be preempted. *)
(*                                                                         *)
(* Strings are TLA+ strings, metadata is a function from keys to sequences *)
(* of values (metadata.MD is map[string][]string).                         *)
(***************************************************************************)
EXTENDS Integers, Sequences, FiniteSets, TLC

\* ------------------------------------------------------------------ bounds

\* The most messages a client sends on one client-streaming or
\* bidirectional call.
MaxInputs == 2

\* The most messages the client of a long SayGoodbyeBidirectional call sends:
\* more than the five farewell templates.
MaxFarewells == 7

\* ------------------------------------------------------- program constants

\* for i := 0; i < 5; i++  (SayHelloStream)
HelloStreamCount == 5

\* ----------------------------------------------------------------- strings

\* strings.HasPrefix(s, prefix)
HasPrefix(s, prefix) ==
    /\ Len(s) >= Len(prefix)
    /\ SubSeq(s, 1, Len(prefix)) = prefix

\* strings.Join(elems, sep)
RECURSIVE Join(_, _)
Join(elems, sep) ==
    IF Len(elems) = 0 THEN ""
    ELSE IF Len(elems) = 1 THEN elems[1]
    ELSE elems[1] \o sep \o Join(Tail(elems), sep)

\* fmt.Sprintf("%d", n)
Itoa(n) == ToString(n)

\* fmt.Sprintf("%.1fs", float64(n)*0.5): n halves, one decimal.
HalfSeconds(n) ==
    Itoa(n \div 2) \o (IF n % 2 = 1 THEN ".5s" ELSE ".0s")

\* fmt.Sprintf("%.1fs", float64(n)*0.75): n*0.75 is exact in binary, so a
\* second decimal of 5 is an exact tie and rounds to the even tenth.
ThreeQuarterSeconds(n) ==
    LET hundredths == n * 75
        tenths == hundredths \div 10
        rounded == IF hundredths % 10 = 5 /\ tenths % 2 = 1
                   THEN tenths + 1 ELSE tenths
    IN  Itoa(rounded \div 10) \o "." \o Itoa(rounded % 10) \o "s"

\* time.Now().Format(time.RFC3339) and time.Now().Unix(): the clock is not
\* modelled, every reading is the same opaque token.
Now == "<now>"

\* ---------------------------------------------------------------- metadata

\* metadata.MD with no keys.
NoMD == [k \in {} |-> <<>>]

\* metadata.Pairs(k, v): one key with one value.
Pair(k, v) == k :> <<v>>

\* metadata.Join(a, b): values of a key present in both are appended in order.
MDJoin(a, b) ==
    [k \in DOMAIN a \cup DOMAIN b |->
        (IF k \in DOMAIN a THEN a[k] ELSE <<>>) \o
        (IF k \in DOMAIN b THEN b[k] ELSE <<>>)]

\* md.Get(k): the values of key k, empty when absent.
MDGet(md, k) == IF k \in DOMAIN md THEN md[k] ELSE <<>>

\* ------------------------------------------------- the eight service methods

UnaryMethods == {"SayHello", "SayGoodbye"}
ServerStreamMethods == {"SayHelloStream", "SayGoodbyeStream"}
ClientStreamMethods == {"SayHelloClientStream", "SayGoodbyeClientStream"}
BidiMethods == {"SayHelloBidirectional", "SayGoodbyeBidirectional"}

\* hello.RegisterGreeterServer / goodbye.RegisterFarewellServer: the methods
\* the gRPC server dispatches to, by request path.
GreeterPath(m) == "/grpc.hello.Greeter/" \o m
FarewellPath(m) == "/grpc.goodbye.Farewell/" \o m
HelloMethods ==
    {"SayHello", "SayHelloStream", "SayHelloClientStream", "SayHelloBidirectional"}
GoodbyeMethods ==
    {"SayGoodbye", "SayGoodbyeStream", "SayGoodbyeClientStream",
     "SayGoodbyeBidirectional"}
Methods == HelloMethods \cup GoodbyeMethods
MethodPath(m) == IF m \in HelloMethods THEN GreeterPath(m) ELSE FarewellPath(m)
RegisteredPaths == {MethodPath(m) : m \in Methods}
MethodOfPath(p) == CHOOSE m \in Methods : MethodPath(m) = p

\* --- SayHello
SayHelloHeader ==
    Pair("server-name", "grpc-sample-server") @@ Pair("method", "SayHello") @@
    Pair("timestamp", Now) @@ Pair("response-id", "hello-" \o Now)
SayHelloTrailer ==
    Pair("processing-time", "fast") @@ Pair("server-version", "1.0.0")
\* Mutant of SayHelloReply: another greeting text.
SayHelloReplyComma(name) == "Hello, " \o name
SayHelloReply(name) == "Hello " \o name

\* --- SayGoodbye
SayGoodbyeHeader ==
    Pair("server-name", "grpc-sample-server") @@ Pair("method", "SayGoodbye") @@
    Pair("timestamp", Now) @@ Pair("farewell-type", "friendly")
SayGoodbyeTrailer ==
    Pair("goodbye-processed", "true") @@ Pair("session-ended", Now)
SayGoodbyeReply(name) == "Goodbye " \o name \o "! See you later!"

\* --- SayHelloStream
SayHelloStreamHeader ==
    Pair("server-name", "grpc-sample-server") @@
    Pair("method", "SayHelloStream") @@
    Pair("stream-id", "stream-" \o Now) @@ Pair("expected-messages", "5")
\* the reply of loop index i (0-based, as in the code)
SayHelloStreamReply(name, i) == "Hello " \o name \o " - Message " \o Itoa(i + 1)
SayHelloStreamTrailer ==
    Pair("messages-sent", "5") @@ Pair("stream-duration", "5s") @@
    Pair("stream-status", "completed")

\* --- SayGoodbyeStream
SayGoodbyeStreamHeader ==
    Pair("server-name", "grpc-sample-server") @@
    Pair("method", "SayGoodbyeStream") @@
    Pair("stream-id", "goodbye-stream-" \o Now) @@
    Pair("expected-messages", "3") @@ Pair("farewell-type", "streaming")
\* a "%s" template is the text before and after the verb
goodbyeMessages ==
    << <<"Thanks for using our service, ", "!">>,
       <<"It was great having you, ", "!">>,
       <<"Until we meet again, ", "! Farewell!">> >>
SayGoodbyeStreamReply(name, i) ==
    goodbyeMessages[i + 1][1] \o name \o goodbyeMessages[i + 1][2]
SayGoodbyeStreamTrailer ==
    Pair("messages-sent", "3") @@ Pair("stream-duration", "4.5s") @@
    Pair("stream-status", "completed") @@ Pair("farewell-completed", Now)

\* --- SayHelloClientStream
SayHelloClientStreamHeader ==
    Pair("server-name", "grpc-sample-server") @@
    Pair("method", "SayHelloClientStream") @@
    Pair("stream-id", "client-stream-" \o Now) @@
    Pair("stream-type", "client-streaming")
SayHelloClientStreamSummary(ns) ==
    "Hello to all " \o Itoa(Len(ns)) \o " friends: " \o Join(ns, ", ") \o "!"
SayHelloClientStreamTrailer(count, ns) ==
    Pair("messages-received", Itoa(count)) @@
    Pair("names-processed", Join(ns, ",")) @@
    Pair("stream-status", "completed") @@ Pair("processing-time", "batch")

\* --- SayGoodbyeClientStream
SayGoodbyeClientStreamHeader ==
    Pair("server-name", "grpc-sample-server") @@
    Pair("method", "SayGoodbyeClientStream") @@
    Pair("stream-id", "goodbye-client-stream-" \o Now) @@
    Pair("stream-type", "client-streaming") @@ Pair("farewell-type", "batch")
SayGoodbyeClientStreamSummary(ns) ==
    "Farewell to all " \o Itoa(Len(ns)) \o " wonderful people: " \o
    Join(ns, ", ") \o "! May your paths be bright!"
SayGoodbyeClientStreamTrailer(count, ns) ==
    Pair("messages-received", Itoa(count)) @@
    Pair("names-processed", Join(ns, ",")) @@
    Pair("stream-status", "completed") @@ Pair("farewell-type", "collective") @@
    Pair("session-ended", Now)

\* --- SayHelloBidirectional
SayHelloBidirectionalHeader ==
    Pair("server-name", "grpc-sample-server") @@
    Pair("method", "SayHelloBidirectional") @@
    Pair("stream-id", "bidi-stream-" \o Now) @@
    Pair("stream-type", "bidirectional")
SayHelloBidirectionalReply(name, count) ==
    "Hello " \o name \o "! (Message " \o Itoa(count) \o " received)"
SayHelloBidirectionalTrailer(count, ns) ==
    Pair("messages-exchanged", Itoa(count)) @@
    Pair("names-processed", Join(ns, ",")) @@
    Pair("stream-status", "completed") @@
    Pair("stream-duration", HalfSeconds(count))

\* --- SayGoodbyeBidirectional
SayGoodbyeBidirectionalHeader ==
    Pair("server-name", "grpc-sample-server") @@
    Pair("method", "SayGoodbyeBidirectional") @@
    Pair("stream-id", "goodbye-bidi-stream-" \o Now) @@
    Pair("stream-type", "bidirectional") @@ Pair("farewell-type", "interactive")
farewellMessages ==
    << <<"Take care, ", "!">>,
       <<"Safe travels, ", "!">>,
       <<"Until next time, ", "!">>,
       <<"Farewell, dear ", "!">>,
       <<"Goodbye and good luck, ", "!">> >>
\* Mutant of FarewellTemplateIndex: the count is not reduced by one.
FarewellTemplateIndexFromOne(count) == count % Len(farewellMessages)

\* farewellMessages[(messageCount-1)%len(farewellMessages)], 0-based in the code
FarewellTemplateIndex(count) == (count - 1) % Len(farewellMessages)
SayGoodbyeBidirectionalReply(name, count) ==
    LET farewellTemplate == farewellMessages[FarewellTemplateIndex(count) + 1]
    IN  farewellTemplate[1] \o name \o farewellTemplate[2] \o
        " (Farewell " \o Itoa(count) \o ")"
SayGoodbyeBidirectionalTrailer(count, ns) ==
    Pair("farewells-exchanged", Itoa(count)) @@
    Pair("names-processed", Join(ns, ",")) @@
    Pair("stream-status", "completed") @@
    Pair("stream-duration", ThreeQuarterSeconds(count)) @@
    Pair("final-farewell", Now)

\* ----------------------------------------------------------------- requests

\* r.ProtoMajor
Protos == {1, 2}

\* r.Header.Get("Content-Type")
ContentTypes ==
    {"application/grpc", "application/grpc+proto", "application/json", "",
     "application/grp", "text/application/grpc"}

\* r.Method
HTTPMethods == {"GET", "POST", "OPTIONS", "PUT"}

RESTPaths == {"/api/hello", "/api/goodbye", "/health", "/api/doc", "/"}

\* r.URL.Path
Paths == RegisteredPaths \cup RESTPaths \cup {"/nope"}

\* The names a caller supplies.
Names == {"", "World", "Bob"}

\* A name with characters that the wire forms escape: a space, a quote, a
\* plus and a backslash.
OddName == "J \"+\\"

\* ---- the query string

Char(s, k) == SubSeq(s, k, k)
From(s, k) == SubSeq(s, k, Len(s))

\* The percent escapes of the characters of the model that a query escapes.
Octet ==
    ("20" :> " ") @@ ("22" :> "\"") @@ ("25" :> "%") @@ ("26" :> "&") @@
    ("2B" :> "+") @@ ("3D" :> "=") @@ ("5C" :> "\\")

\* url.QueryEscape(s): how a caller writes a value into the query string.
RECURSIVE QueryEscape(_)
QueryEscape(s) ==
    IF s = "" THEN ""
    ELSE LET ch == Char(s, 1)
             hex == {h \in DOMAIN Octet : Octet[h] = ch}
         IN  (IF ch = " " THEN "+"
              ELSE IF hex # {} THEN "%" \o (CHOOSE h \in hex : TRUE)
              ELSE ch) \o QueryEscape(From(s, 2))

\* Mutant of QueryUnescape: a "+" is not turned into a space.
RECURSIVE QueryUnescapeKeepsPlus(_)
QueryUnescapeKeepsPlus(s) ==
    IF s = "" THEN [ok |-> TRUE, val |-> ""]
    ELSE IF Char(s, 1) = "%"
    THEN IF Len(s) >= 3 /\ SubSeq(s, 2, 3) \in DOMAIN Octet
         THEN LET r == QueryUnescapeKeepsPlus(From(s, 4)) IN
              [ok |-> r.ok, val |-> Octet[SubSeq(s, 2, 3)] \o r.val]
         ELSE [ok |-> FALSE, val |-> ""]
    ELSE LET r == QueryUnescapeKeepsPlus(From(s, 2)) IN
         [ok |-> r.ok, val |-> Char(s, 1) \o r.val]

\* url.QueryUnescape(s), as r.URL.Query() applies it to keys and values: "+"
\* is a space, %XX is the octet XX, a "%" without two hex digits is an error.
RECURSIVE QueryUnescape(_)
QueryUnescape(s) ==
    IF s = "" THEN [ok |-> TRUE, val |-> ""]
    ELSE IF Char(s, 1) = "%"
    THEN IF Len(s) >= 3 /\ SubSeq(s, 2, 3) \in DOMAIN Octet
         THEN LET r == QueryUnescape(From(s, 4)) IN
              [ok |-> r.ok, val |-> Octet[SubSeq(s, 2, 3)] \o r.val]
         ELSE [ok |-> FALSE, val |-> ""]
    ELSE LET r == QueryUnescape(From(s, 2)) IN
         [ok |-> r.ok,
          val |-> (IF Char(s, 1) = "+" THEN " " ELSE Char(s, 1)) \o r.val]

\* strings.IndexByte: the first position of ch in s, 0 when there is none.
RECURSIVE IndexFrom(_, _, _)
IndexFrom(s, ch, k) ==
    IF k > Len(s) THEN 0
    ELSE IF Char(s, k) = ch THEN k ELSE IndexFrom(s, ch, k + 1)
Index(s, ch) == IndexFrom(s, ch, 1)

\* r.URL.Query().Get(key): the raw query is cut at every "&", each piece at
\* its first "="; a piece that does not unescape is dropped (Query() discards
\* the error); the first value of key is returned, "" when there is none.
RECURSIVE QueryGet(_, _)
QueryGet(raw, key) ==
    IF raw = "" THEN ""
    ELSE LET amp == Index(raw, "&")
             piece == IF amp = 0 THEN raw ELSE SubSeq(raw, 1, amp - 1)
             more == IF amp = 0 THEN "" ELSE From(raw, amp + 1)
             eq == Index(piece, "=")
             k == QueryUnescape(IF eq = 0 THEN piece ELSE SubSeq(piece, 1, eq - 1))
             v == QueryUnescape(IF eq = 0 THEN "" ELSE From(piece, eq + 1))
         IN  IF k.ok /\ v.ok /\ k.val = key THEN v.val ELSE QueryGet(more, key)

\* The names callers put in the query, and the raw queries of the model: no
\* query, an empty value, a value that does not unescape, another parameter
\* first, and each name escaped.
QueryNames == {"Bob", OddName}
RawQueryOf(n) == "name=" \o QueryEscape(n)
RawQueries ==
    {"", "name=", "name=%", "x=1&name=Bob"} \cup {RawQueryOf(n) : n \in QueryNames}

\* r.URL.Query().Get("name"): "" when the parameter is absent or empty.
Queries == {QueryGet(raw, "name") : raw \in RawQueries}

\* ---- JSON

\* A string as encoding/json writes it: quoted, with quote and backslash
\* escaped.  (The model has no control or HTML character in a name.)
RECURSIVE JSONEscape(_)
JSONEscape(s) ==
    IF s = "" THEN ""
    ELSE (IF Char(s, 1) \in {"\"", "\\"} THEN "\\" \o Char(s, 1) ELSE Char(s, 1))
         \o JSONEscape(From(s, 2))
JSONQuote(s) == "\"" \o JSONEscape(s) \o "\""

\* The decoder reading a string whose opening quote it has consumed: the
\* value up to the closing quote, escapes undone, and the text after it.
RECURSIVE ScanString(_)
ScanString(s) ==
    IF s = "" THEN [ok |-> FALSE, val |-> "", rest |-> ""]
    ELSE IF Char(s, 1) = "\"" THEN [ok |-> TRUE, val |-> "", rest |-> From(s, 2)]
    ELSE IF Char(s, 1) = "\\"
    THEN IF Len(s) >= 2 /\ Char(s, 2) \in {"\"", "\\"}
         THEN LET r == ScanString(From(s, 3)) IN [r EXCEPT !.val = Char(s, 2) \o @]
         ELSE [ok |-> FALSE, val |-> "", rest |-> ""]
    ELSE LET r == ScanString(From(s, 2)) IN [r EXCEPT !.val = Char(s, 1) \o @]

NoFields == [k \in {} |-> ""]

\* json.NewDecoder(r.Body).Decode(&req) on the text of a body: it reads one
\* JSON value from the front, here the object {} or {"name":"..."}, and leaves
\* the rest unread.
DecodeObject(text) ==
    IF HasPrefix(text, "{}")
    THEN [ok |-> TRUE, obj |-> NoFields, rest |-> From(text, 3)]
    ELSE IF HasPrefix(text, "{\"name\":\"")
    THEN LET r == ScanString(From(text, Len("{\"name\":\"") + 1)) IN
         IF r.ok /\ HasPrefix(r.rest, "}")
         THEN [ok |-> TRUE, obj |-> "name" :> r.val, rest |-> From(r.rest, 2)]
         ELSE [ok |-> FALSE, obj |-> NoFields, rest |-> ""]
    ELSE [ok |-> FALSE, obj |-> NoFields, rest |-> ""]

\* What a body text is to the decoder: a JSON object and nothing else ("json"),
\* a JSON object followed by more bytes ("json-trailing"), or no JSON object
\* ("garbage").
BodyOfText(text) ==
    LET d == DecodeObject(text) IN
    IF ~d.ok THEN [kind |-> "garbage", obj |-> NoFields]
    ELSE [kind |-> IF d.rest = "" THEN "json" ELSE "json-trailing", obj |-> d.obj]

\* The body a caller writes for the name n, and the body texts of the model.
JSONNames == Names \cup {OddName}
JSONBodyOf(n) == "{\"name\":" \o JSONQuote(n) \o "}"
BodyTexts ==
    {"{}", "xyz", "{\"name\":\"Bob\"} xyz", "{\"name\":\"Bob"} \cup
    {JSONBodyOf(n) : n \in JSONNames}

\* ---- gRPC frames

\* The request message on the wire: proto3 leaves a field with the zero value
\* out, in.GetName() gives "" for a field that is not there.
FrameNames == Names \cup {OddName}
ProtoFields(n) == IF n = "" THEN NoFields ELSE "name" :> n

\* r.Body, as the server reads it: a JSON text, classified by what the decoder
\* makes of it, or gRPC frames carrying the request message of a unary or
\* server-streaming call.
Bodies ==
    {BodyOfText(t) : t \in BodyTexts} \cup
    {[kind |-> "frames", obj |-> ProtoFields(n)] : n \in FrameNames}

Requests ==
    [proto : Protos, ctype : ContentTypes, method : HTTPMethods, path : Paths,
     query : Queries, body : Bodies]

NoReq ==
    [proto |-> 0, ctype |-> "", method |-> "", path |-> "", query |-> "",
     body |-> [kind |-> "none", obj |-> NoFields]]

\* in.GetName(): the name field, "" when unset.
GetName(obj) == IF "name" \in DOMAIN obj THEN obj["name"] ELSE ""

\* ------------------------------------------------------------------- state

\* The requests the server handles; each goes through the multiplexer once.
Calls == {"c1", "c2"}

VARIABLES
    req,           \* req[c]: the request, NoReq before it arrives
    grpcServed,    \* grpcServed[c]: times grpcServer.ServeHTTP was called with it
    httpServed,    \* httpServed[c]: times httpHandler.ServeHTTP was called with it
    resp,          \* resp[c]: the HTTP response written by the REST side
    proc,          \* the server process: its environment and how far main is
    method,        \* method[c]: the service method running, "" when none
    pc,            \* pc[c]: the statement the service method is at
    i,             \* i[c]: the loop index of a server-streaming method
    messageCount,  \* messageCount[c]
    names,         \* names[c]: names / processedNames
    inputs,        \* inputs[c]: every message the client has sent so far
    recvd,         \* recvd[c]: how many of them stream.Recv() has returned
    closed,        \* closed[c]: the client has half-closed (CloseSend)
    broken,        \* broken[c]: the peer is gone, the transport reports errors
    client,        \* client[c]: the demo client driving the call, see NoClient
    demo,          \* the demo client process: how far its main is, see NoMain
    wire,          \* wire[c]: the frames written to the client, in order
    trailerMD,     \* trailerMD[c]: the trailers set so far (sent with the status)
    ret,           \* ret[c]: "pending", "nil" or "err": what the method returned
    returned,      \* returned[c]: the reply a unary method returned, as a sequence
    ops,           \* ops[c]: the calls the method made, in order (history)
    logs           \* logs[c]: what serving the request wrote to the log, in order

muxVars == <<req, grpcServed, httpServed, resp, proc>>
handlerVars ==
    <<method, pc, i, messageCount, names, trailerMD, ret, returned, ops, logs>>
peerVars == <<inputs, recvd, closed, broken, client, demo>>
vars == <<muxVars, handlerVars, peerVars, wire>>

\* log.Printf(format, ...) at a line of main.go, with the text it writes.
L(line, text) == [line |-> line, text |-> text]

\* The demo client of a streaming call: where its main goroutine is (main),
\* where the goroutine that sends is (sender), and the replies stream.Recv()
\* has returned to it (replies).
NoClient == [main |-> "header", sender |-> "idle", replies |-> <<>>]

\* The demo client process at the start of main: the call it is at (at, an
\* index of MainCalls), the statement of that call (step), the names it has
\* sent on it (sent), every call and send it has attempted, in order (hist),
\* what printResponseInfo has written of a failure (report), and whether and
\* how the process has ended (phase, exit).
NoMain ==
    [at |-> 1, step |-> "call", sent |-> 0, hist |-> <<>>, report |-> <<>>,
     phase |-> "running", exit |-> 0]

\* A response: what was written to w, the calls of the business functions made
\* on the way (invoked), the number of times r.Body was decoded (decoded) and
\* what the handler and the functions it called logged (logged).
NoResp ==
    [status |-> 0, headers |-> NoFields, body |-> "", invoked |-> <<>>,
     decoded |-> 0, logged |-> <<>>]

\* os.Getenv(key): the value of the variable, "" when it is not set.
Getenv(env, key) == IF key \in DOMAIN env THEN env[key] ELSE ""

\* Mutant of PortOf: the fallback is missing.
PortOfNoDefault(env) == Getenv(env, "GRPC_PORT")

\* port := os.Getenv("GRPC_PORT"); if port == "" { port = "50051" }
PortOf(env) ==
    IF Getenv(env, "GRPC_PORT") = "" THEN "50051" ELSE Getenv(env, "GRPC_PORT")

\* The process at the start of main in environment env: nothing read, nothing
\* bound (addr), not exited (exit is the exit status, by is what ended it).
Started(env) ==
    [env |-> env, phase |-> "start", port |-> "", addr |-> "", exit |-> 0,
     by |-> ""]

\* The process serving on the default port, GRPC_PORT not set.
Serving ==
    [Started(<<>>) EXCEPT !.phase = "serving", !.port = "50051", !.addr = ":50051"]

\* No request has arrived.
NoCalls ==
    /\ req = [c \in Calls |-> NoReq]
    /\ grpcServed = [c \in Calls |-> 0]
    /\ httpServed = [c \in Calls |-> 0]
    /\ resp = [c \in Calls |-> NoResp]
    /\ method = [c \in Calls |-> ""]
    /\ pc = [c \in Calls |-> "idle"]
    /\ i = [c \in Calls |-> 0]
    /\ messageCount = [c \in Calls |-> 0]
    /\ names = [c \in Calls |-> <<>>]
    /\ inputs = [c \in Calls |-> <<>>]
    /\ recvd = [c \in Calls |-> 0]
    /\ closed = [c \in Calls |-> FALSE]
    /\ broken = [c \in Calls |-> FALSE]
    /\ client = [c \in Calls |-> NoClient]
    /\ demo = NoMain
    /\ wire = [c \in Calls |-> <<>>]
    /\ trailerMD = [c \in Calls |-> NoMD]
    /\ ret = [c \in Calls |-> "pending"]
    /\ returned = [c \in Calls |-> <<>>]
    /\ ops = [c \in Calls |-> <<>>]
    /\ logs = [c \in Calls |-> <<>>]

\* The server is up and no request has arrived.
Init == NoCalls /\ proc = Serving

\* --------------------------------------------------------------- REST side

\* w.Header().Set(k, v)
HeaderSet(h, k, v) == [x \in DOMAIN h \cup {k} |-> IF x = k THEN v ELSE h[x]]

\* http.Error(w, msg, code): the headers already set stay, the content type
\* becomes plain text, the body is the message and a newline.
HTTPError(h, msg, code) ==
    [status |-> code,
     headers |-> HeaderSet(HeaderSet(h, "Content-Type", "text/plain; charset=utf-8"),
                           "X-Content-Type-Options", "nosniff"),
     body |-> msg \o "\n",
     invoked |-> <<>>,
     decoded |-> 0, logged |-> <<>>]

\* json.NewEncoder(w).Encode(resp) of a struct with the one field "message".
EncodeMessage(msg) == "{\"message\":" \o JSONQuote(msg) \o "}\n"

\* json.NewDecoder(r.Body).Decode(&req): reads the first JSON value of the
\* body and stops there, so it fails unless the body starts with a JSON
\* object, and bytes after that object are never looked at; a missing name
\* field leaves req.Name at its zero value "".
DecodeOK(body) == body.kind \in {"json", "json-trailing"}
DecodedName(body) == GetName(body.obj)

\* The "Set CORS headers" block of both API handlers.
APIHeaders ==
    ("Access-Control-Allow-Origin" :> "*") @@
    ("Access-Control-Allow-Methods" :> "GET, POST, OPTIONS") @@
    ("Access-Control-Allow-Headers" :> "Content-Type") @@
    ("Content-Type" :> "application/json")

\* Mutant of CustomHeaders: the block comes after w.WriteHeader, so none of
\* its headers is sent.
CustomHeadersAfterWrite(h, m) == h

\* The "Add custom headers" block of both API handlers.
CustomHeaders(h, m) ==
    HeaderSet(HeaderSet(HeaderSet(HeaderSet(h,
        "X-Server-Name", "grpc-sample-server"),
        "X-Method", m),
        "X-Protocol", "HTTP"),
        "X-Timestamp", Now)

\* s.SayHello(context.Background(), grpcReq): the context carries no stream, so
\* grpc.SendHeader and grpc.SetTrailer fail and their errors are dropped; the
\* reply and a nil error come back.
SendHeaderNoStream == "grpc: failed to fetch the stream from the context"
SetTrailerNoStream == "grpc: failed to fetch the stream from the context"

\* Mutant of UnaryOutcome: the method returns the error of grpc.SendHeader or
\* grpc.SetTrailer instead of dropping it.
UnaryOutcomeChecked(reply, headerErr, trailerErr) ==
    IF headerErr # "nil" THEN [reply |-> "", err |-> headerErr]
    ELSE IF trailerErr # "nil" THEN [reply |-> "", err |-> trailerErr]
    ELSE [reply |-> reply, err |-> "nil"]

\* What a unary method returns, given what grpc.SendHeader and
\* grpc.SetTrailer returned to it: neither is looked at.
UnaryOutcome(reply, headerErr, trailerErr) == [reply |-> reply, err |-> "nil"]

SayHelloNoStream(name) ==
    UnaryOutcome(SayHelloReply(name), SendHeaderNoStream, SetTrailerNoStream)
SayGoodbyeNoStream(name) ==
    UnaryOutcome(SayGoodbyeReply(name), SendHeaderNoStream, SetTrailerNoStream)

\* What the tail of each API handler logs: its own "Processing" line and the
\* "Received" line of the business function it calls.
HelloRespondLog(name) ==
    << L(499, "HTTP: Processing hello request for: " \o name),
       L(55, "gRPC: Received SayHello request: " \o name) >>
GoodbyeRespondLog(name) ==
    << L(560, "HTTP: Processing goodbye request for: " \o name),
       L(247, "gRPC: Received goodbye request for: " \o name) >>

\* The first statement of each API handler.
Entered(line, text, out) == [out EXCEPT !.logged = <<L(line, text)>> \o @]

\* Mutant of HelloRespond: the handler builds the greeting itself and never
\* calls s.SayHello.
HelloRespondOwnGreeting(h, name) ==
    [status |-> 200,
     headers |-> CustomHeaders(h, "SayHello"),
     body |-> EncodeMessage("Hello, " \o name \o "!"),
     invoked |-> <<>>,
     decoded |-> 0, logged |-> <<>>]

\* Mutant of HelloRespondTo: the 500 carries err.Error().
HelloRespondToLeaks(h, name, out) ==
    IF out.err # "nil"
    THEN [HTTPError(h, out.err, 500)
            EXCEPT !.invoked = <<[fn |-> "SayHello", name |-> name]>>,
                   !.logged = HelloRespondLog(name)]
    ELSE [status |-> 200,
          headers |-> CustomHeaders(h, "SayHello"),
          body |-> EncodeMessage(out.reply),
          invoked |-> <<[fn |-> "SayHello", name |-> name]>>,
          decoded |-> 0, logged |-> HelloRespondLog(name)]

\* What handleSayHelloHTTP does with grpcResp, err once s.SayHello has returned
\* them as out: the 500 of "if err != nil", else the reply as JSON.
HelloRespondTo(h, name, out) ==
    IF out.err # "nil"
    THEN [HTTPError(h, "Internal server error", 500)
            EXCEPT !.invoked = <<[fn |-> "SayHello", name |-> name]>>,
                   !.logged = HelloRespondLog(name)]
    ELSE [status |-> 200,
          headers |-> CustomHeaders(h, "SayHello"),
          body |-> EncodeMessage(out.reply),
          invoked |-> <<[fn |-> "SayHello", name |-> name]>>,
          decoded |-> 0, logged |-> HelloRespondLog(name)]

\* The tail of handleSayHelloHTTP, from "Create gRPC request" on.
HelloRespond(h, name) == HelloRespondTo(h, name, SayHelloNoStream(name))

\* name = ...; if name == "" { name = "World" }, in the GET and the POST branch.
HelloName(name) == IF name = "" THEN "World" ELSE name

\* Mutant of handleSayHelloHTTP: the test r.Method == "OPTIONS" is missing.
handleSayHelloHTTPNoPreflight(r) ==
    Entered(462, "HTTP: Received SayHello request",
        IF r.method = "GET"
        THEN HelloRespond(APIHeaders, HelloName(r.query))
        ELSE IF r.method = "POST"
        THEN IF ~DecodeOK(r.body)
             THEN [HTTPError(APIHeaders, "Invalid JSON", 400) EXCEPT !.decoded = 1]
             ELSE [HelloRespond(APIHeaders, HelloName(DecodedName(r.body)))
                      EXCEPT !.decoded = 1]
        ELSE HTTPError(APIHeaders, "Method not allowed", 405))

handleSayHelloHTTP(r) ==
    Entered(462, "HTTP: Received SayHello request",
        IF r.method = "OPTIONS"
        THEN [status |-> 200, headers |-> APIHeaders, body |-> "", invoked |-> <<>>,
              decoded |-> 0, logged |-> <<>>]
        ELSE IF r.method = "GET"
        THEN HelloRespond(APIHeaders, HelloName(r.query))
        ELSE IF r.method = "POST"
        THEN IF ~DecodeOK(r.body)
             THEN [HTTPError(APIHeaders, "Invalid JSON", 400) EXCEPT !.decoded = 1]
             ELSE [HelloRespond(APIHeaders, HelloName(DecodedName(r.body)))
                      EXCEPT !.decoded = 1]
        ELSE HTTPError(APIHeaders, "Method not allowed", 405))

\* Mutant of GoodbyeRespondTo: the 500 carries err.Error().
GoodbyeRespondToLeaks(h, name, out) ==
    IF out.err # "nil"
    THEN [HTTPError(h, out.err, 500)
            EXCEPT !.invoked = <<[fn |-> "SayGoodbye", name |-> name]>>,
                   !.logged = GoodbyeRespondLog(name)]
    ELSE [status |-> 200,
          headers |-> CustomHeaders(h, "SayGoodbye"),
          body |-> EncodeMessage(out.reply),
          invoked |-> <<[fn |-> "SayGoodbye", name |-> name]>>,
          decoded |-> 0, logged |-> GoodbyeRespondLog(name)]

\* What handleSayGoodbyeHTTP does with grpcResp, err once s.SayGoodbye has returned
\* them as out: the 500 of "if err != nil", else the reply as JSON.
GoodbyeRespondTo(h, name, out) ==
    IF out.err # "nil"
    THEN [HTTPError(h, "Internal server error", 500)
            EXCEPT !.invoked = <<[fn |-> "SayGoodbye", name |-> name]>>,
                   !.logged = GoodbyeRespondLog(name)]
    ELSE [status |-> 200,
          headers |-> CustomHeaders(h, "SayGoodbye"),
          body |-> EncodeMessage(out.reply),
          invoked |-> <<[fn |-> "SayGoodbye", name |-> name]>>,
          decoded |-> 0, logged |-> GoodbyeRespondLog(name)]

\* The tail of handleSayGoodbyeHTTP, from "Create gRPC request" on.
GoodbyeRespond(h, name) == GoodbyeRespondTo(h, name, SayGoodbyeNoStream(name))

\* Mutant of GoodbyeName: the default of the hello route.
GoodbyeNameWorld(name) == IF name = "" THEN "World" ELSE name

\* name = ...; if name == "" { name = "Friend" }, in the GET and the POST branch.
GoodbyeName(name) == IF name = "" THEN "Friend" ELSE name

handleSayGoodbyeHTTP(r) ==
    Entered(523, "HTTP: Received SayGoodbye request",
        IF r.method = "OPTIONS"
        THEN [status |-> 200, headers |-> APIHeaders, body |-> "", invoked |-> <<>>,
              decoded |-> 0, logged |-> <<>>]
        ELSE IF r.method = "GET"
        THEN GoodbyeRespond(APIHeaders, GoodbyeName(r.query))
        ELSE IF r.method = "POST"
        THEN IF ~DecodeOK(r.body)
             THEN [HTTPError(APIHeaders, "Invalid JSON", 400) EXCEPT !.decoded = 1]
             ELSE [GoodbyeRespond(APIHeaders, GoodbyeName(DecodedName(r.body)))
                      EXCEPT !.decoded = 1]
        ELSE HTTPError(APIHeaders, "Method not allowed", 405))

\* handleHealthCheck, handleAPIDoc and the root route: a fixed JSON document
\* (its content is not modelled) with status 200.
UtilityHeaders ==
    ("Content-Type" :> "application/json") @@ ("Access-Control-Allow-Origin" :> "*")
handleHealthCheck(r) ==
    [status |-> 200, headers |-> UtilityHeaders, body |-> "<health>", invoked |-> <<>>,
     decoded |-> 0, logged |-> <<>>]
handleAPIDoc(r) ==
    [status |-> 200, headers |-> UtilityHeaders, body |-> "<apiDoc>", invoked |-> <<>>,
     decoded |-> 0, logged |-> <<>>]
handleRoot(r) ==
    [status |-> 200, headers |-> UtilityHeaders, body |-> "<welcome>", invoked |-> <<>>,
     decoded |-> 0, logged |-> <<>>]

\* The routes setupHTTPRouter registers: path and allowed methods.
Routes ==
    << [path |-> "/api/hello", methods |-> {"GET", "POST", "OPTIONS"}],
       [path |-> "/api/goodbye", methods |-> {"GET", "POST", "OPTIONS"}],
       [path |-> "/health", methods |-> {"GET"}],
       [path |-> "/api/doc", methods |-> {"GET"}],
       [path |-> "/", methods |-> {"GET"}] >>

\* router.ServeHTTP: the first route whose path and method both match serves
\* the request; a path that matches under another method only gives the
\* router's 405, no match at all gives its 404.  Neither default handler sets
\* any header of the application.
\* Mutant of RouterServe: the routes are registered without .Methods(...), so
\* the path alone selects the handler.
RouterServeAnyMethod(r) ==
    LET pathOnly == {k \in 1..Len(Routes) : Routes[k].path = r.path}
    IN  IF pathOnly # {}
        THEN LET k == CHOOSE x \in pathOnly : \A y \in pathOnly : x <= y IN
             IF k = 1 THEN handleSayHelloHTTP(r)
             ELSE IF k = 2 THEN handleSayGoodbyeHTTP(r)
             ELSE IF k = 3 THEN handleHealthCheck(r)
             ELSE IF k = 4 THEN handleAPIDoc(r)
             ELSE handleRoot(r)
        ELSE HTTPError(NoFields, "404 page not found", 404)

RouterServe(r) ==
    LET full == {k \in 1..Len(Routes) :
                    Routes[k].path = r.path /\ r.method \in Routes[k].methods}
        pathOnly == {k \in 1..Len(Routes) : Routes[k].path = r.path}
    IN  IF full # {}
        THEN LET k == CHOOSE x \in full : \A y \in full : x <= y IN
             IF k = 1 THEN handleSayHelloHTTP(r)
             ELSE IF k = 2 THEN handleSayGoodbyeHTTP(r)
             ELSE IF k = 3 THEN handleHealthCheck(r)
             ELSE IF k = 4 THEN handleAPIDoc(r)
             ELSE handleRoot(r)
        ELSE IF pathOnly # {}
        THEN [status |-> 405, headers |-> NoFields, body |-> "", invoked |-> <<>>,
              decoded |-> 0, logged |-> <<>>]
        ELSE HTTPError(NoFields, "404 page not found", 404)

\* ---------------------------------------------------------- the multiplexer

\* Mutant of IsGRPCRequest: the protocol version is not looked at.
IsGRPCRequestAnyProto(r) == HasPrefix(r.ctype, "application/grpc")

\* The test of createMultiplexedHandler:
\*   r.ProtoMajor == 2 &&
\*   strings.HasPrefix(r.Header.Get("Content-Type"), "application/grpc")
IsGRPCRequest(r) == r.proto = 2 /\ HasPrefix(r.ctype, "application/grpc")

\* grpcServer.ServeHTTP(w, r).  The gRPC server accepts a POST of gRPC frames
\* to a registered method and starts that method; anything else it rejects
\* itself, without running a service method.
GRPCServeHTTP(c, r) ==
    /\ grpcServed' = [grpcServed EXCEPT ![c] = @ + 1]
    /\ IF r.method = "POST" /\ r.path \in RegisteredPaths /\ r.body.kind = "frames"
       THEN /\ method' = [method EXCEPT ![c] = MethodOfPath(r.path)]
            /\ pc' = [pc EXCEPT ![c] = "header"]
            /\ ret' = ret
       ELSE /\ method' = method
            /\ pc' = [pc EXCEPT ![c] = "rejected"]
            /\ ret' = [ret EXCEPT ![c] = "err"]

\* httpHandler.ServeHTTP(w, r): the router and the handler it selects run to
\* completion and leave the response.
HTTPServeHTTP(c, r) ==
    /\ httpServed' = [httpServed EXCEPT ![c] = @ + 1]
    /\ resp' = [resp EXCEPT ![c] = RouterServe(r)]
    /\ logs' = [logs EXCEPT ![c] = RouterServe(r).logged]

\* Mutant of MultiplexedHandler: the else is missing, so a gRPC request goes
\* on to the REST router as well.
MultiplexedHandlerFallThrough(c, r) ==
    /\ req[c] = NoReq
    /\ req' = [req EXCEPT ![c] = r]
    /\ IF IsGRPCRequest(r)
       THEN GRPCServeHTTP(c, r)
       ELSE UNCHANGED <<grpcServed, method, pc, ret>>
    /\ HTTPServeHTTP(c, r)
    /\ UNCHANGED <<proc, i, messageCount, names, trailerMD, returned, ops, peerVars,
                   wire>>

\* The handler function createMultiplexedHandler returns, serving request r.
MultiplexedHandler(c, r) ==
    /\ req[c] = NoReq
    /\ req' = [req EXCEPT ![c] = r]
    /\ IF IsGRPCRequest(r)
       THEN /\ GRPCServeHTTP(c, r)
            /\ UNCHANGED <<httpServed, resp, logs>>
       ELSE /\ HTTPServeHTTP(c, r)
            /\ UNCHANGED <<grpcServed, method, pc, ret>>
    /\ UNCHANGED <<proc, i, messageCount, names, trailerMD, returned, ops, peerVars,
                   wire>>

\* ------------------------------------------------------- the gRPC transport

HFrame(md) == [kind |-> "H", md |-> md, msg |-> "", status |-> ""]
MFrame(msg) == [kind |-> "M", md |-> NoMD, msg |-> msg, status |-> ""]
TFrame(md, status) == [kind |-> "T", md |-> md, msg |-> "", status |-> status]

\* The header frame of the call has been written.
HeaderSent(c) == \E k \in 1..Len(wire[c]) : wire[c][k].kind = "H"

\* stream.SendHeader(md) / grpc.SendHeader(ctx, md): writes the header frame;
\* fails, writing nothing, when the peer is gone or the header was already sent.
SendHeaderOK(c) == ~broken[c] /\ ~HeaderSent(c)
WireAfterSendHeader(c, md) ==
    IF SendHeaderOK(c) THEN Append(wire[c], HFrame(md)) ELSE wire[c]

\* stream.Send(m): fails when the peer is gone; otherwise writes the message,
\* after the (empty) header frame if none was sent yet.
SendOK(c) == ~broken[c]
WireAfterSend(c, msg) ==
    IF ~SendOK(c) THEN wire[c]
    ELSE (IF HeaderSent(c) THEN wire[c] ELSE Append(wire[c], HFrame(NoMD)))
         \o <<MFrame(msg)>>

\* What the server writes when the method returns: the status together with
\* the trailers set so far, as the last frame.  Nothing reaches a peer that is
\* gone.
WireAfterStatus(c, w, md, status) ==
    IF broken[c] THEN w ELSE Append(w, TFrame(md, status))

\* stream.SetTrailer(md) / grpc.SetTrailer(ctx, md): joins md to the trailers.
TrailerAfterSet(c, md) == MDJoin(trailerMD[c], md)

\* stream.Recv(): the next message the client sent, if there is one.
RecvHasMessage(c) == recvd[c] < Len(inputs[c])
\* Mutant of RecvEOF: end-of-input is never reported.
RecvEOFNever(c) == FALSE

\* stream.Recv() returns io.EOF: everything sent was received and the client
\* has half-closed.
RecvEOF(c) == recvd[c] = Len(inputs[c]) /\ closed[c]
\* stream.Recv() returns another error: the peer is gone.  (A message or the
\* end-of-input already buffered may still win the race.)
RecvError(c) == broken[c]

Goto(c, loc) == pc' = [pc EXCEPT ![c] = loc]

\* in.GetName() of the request message of a unary or server-streaming call.
In(c) == GetName(req[c].body.obj)

\* --------------------------------------------- the methods, by their shape

\* Mutant of HeaderOf: the two server-streaming methods send each other's
\* header.
HeaderOfStreamsSwapped(m) ==
    CASE m = "SayHello" -> SayHelloHeader
      [] m = "SayGoodbye" -> SayGoodbyeHeader
      [] m = "SayHelloStream" -> SayGoodbyeStreamHeader
      [] m = "SayGoodbyeStream" -> SayHelloStreamHeader
      [] m = "SayHelloClientStream" -> SayHelloClientStreamHeader
      [] m = "SayGoodbyeClientStream" -> SayGoodbyeClientStreamHeader
      [] m = "SayHelloBidirectional" -> SayHelloBidirectionalHeader
      [] m = "SayGoodbyeBidirectional" -> SayGoodbyeBidirectionalHeader

HeaderOf(m) ==
    CASE m = "SayHello" -> SayHelloHeader
      [] m = "SayGoodbye" -> SayGoodbyeHeader
      [] m = "SayHelloStream" -> SayHelloStreamHeader
      [] m = "SayGoodbyeStream" -> SayGoodbyeStreamHeader
      [] m = "SayHelloClientStream" -> SayHelloClientStreamHeader
      [] m = "SayGoodbyeClientStream" -> SayGoodbyeClientStreamHeader
      [] m = "SayHelloBidirectional" -> SayHelloBidirectionalHeader
      [] m = "SayGoodbyeBidirectional" -> SayGoodbyeBidirectionalHeader

UnaryTrailerOf(m) == IF m = "SayHello" THEN SayHelloTrailer ELSE SayGoodbyeTrailer
UnaryReplyOf(m, name) ==
    IF m = "SayHello" THEN SayHelloReply(name) ELSE SayGoodbyeReply(name)

\* Mutant of StreamCountOf: the loop stops one iteration early.
StreamCountOfShort(m) ==
    IF m = "SayHelloStream" THEN HelloStreamCount - 1 ELSE Len(goodbyeMessages) - 1

\* The number of iterations of the send loop: i < 5, resp. range goodbyeMessages.
StreamCountOf(m) ==
    IF m = "SayHelloStream" THEN HelloStreamCount ELSE Len(goodbyeMessages)
StreamReplyOf(m, name, k) ==
    IF m = "SayHelloStream" THEN SayHelloStreamReply(name, k)
    ELSE SayGoodbyeStreamReply(name, k)
StreamTrailerOf(m) ==
    IF m = "SayHelloStream" THEN SayHelloStreamTrailer ELSE SayGoodbyeStreamTrailer

\* Mutant of SummaryOf: the names of the summary are joined the way the
\* names-processed trailer joins them, with "," alone.
SummaryOfTrailerJoin(m, ns) ==
    IF m = "SayHelloClientStream"
    THEN "Hello to all " \o Itoa(Len(ns)) \o " friends: " \o Join(ns, ",") \o "!"
    ELSE "Farewell to all " \o Itoa(Len(ns)) \o " wonderful people: " \o
         Join(ns, ",") \o "! May your paths be bright!"

SummaryOf(m, ns) ==
    IF m = "SayHelloClientStream" THEN SayHelloClientStreamSummary(ns)
    ELSE SayGoodbyeClientStreamSummary(ns)
\* Mutant of ClientStreamTrailerOf: without names there is no names-processed
\* trailer.
ClientStreamTrailerOfOmitsEmpty(m, count, ns) ==
    LET md == IF m = "SayHelloClientStream" THEN SayHelloClientStreamTrailer(count, ns)
              ELSE SayGoodbyeClientStreamTrailer(count, ns)
    IN IF ns = <<>> THEN [k \in DOMAIN md \ {"names-processed"} |-> md[k]] ELSE md

ClientStreamTrailerOf(m, count, ns) ==
    IF m = "SayHelloClientStream" THEN SayHelloClientStreamTrailer(count, ns)
    ELSE SayGoodbyeClientStreamTrailer(count, ns)

\* Mutant of BidiReplyOf: the index is taken before messageCount++.
BidiReplyOfStaleCount(m, name, count) ==
    IF m = "SayHelloBidirectional" THEN SayHelloBidirectionalReply(name, count - 1)
    ELSE SayGoodbyeBidirectionalReply(name, count - 1)

BidiReplyOf(m, name, count) ==
    IF m = "SayHelloBidirectional" THEN SayHelloBidirectionalReply(name, count)
    ELSE SayGoodbyeBidirectionalReply(name, count)
\* Mutant of BidiTrailerOf: the count includes the receive that returned
\* io.EOF.
BidiTrailerOfCountsEOF(m, count, ns) ==
    IF m = "SayHelloBidirectional" THEN SayHelloBidirectionalTrailer(count + 1, ns)
    ELSE SayGoodbyeBidirectionalTrailer(count + 1, ns)

BidiTrailerOf(m, count, ns) ==
    IF m = "SayHelloBidirectional" THEN SayHelloBidirectionalTrailer(count, ns)
    ELSE SayGoodbyeBidirectionalTrailer(count, ns)

\* The first statement of each method: log.Printf("gRPC: Received ...").  (The
\* lines that list the incoming metadata are left out: the metadata of the
\* request is not part of the model.)
EntryLogOf(c) ==
    LET m == method[c] IN
    CASE m = "SayHello" -> L(55, "gRPC: Received SayHello request: " \o In(c))
      [] m = "SayHelloStream" -> L(86, "gRPC: Received stream request for: " \o In(c))
      [] m = "SayHelloClientStream" -> L(131, "gRPC: Received client stream request")
      [] m = "SayHelloBidirectional" ->
            L(185, "gRPC: Received bidirectional stream request")
      [] m = "SayGoodbye" -> L(247, "gRPC: Received goodbye request for: " \o In(c))
      [] m = "SayGoodbyeStream" ->
            L(278, "gRPC: Received goodbye stream request for: " \o In(c))
      [] m = "SayGoodbyeClientStream" ->
            L(334, "gRPC: Received goodbye client stream request")
      [] m = "SayGoodbyeBidirectional" ->
            L(390, "gRPC: Received goodbye bidirectional stream request")

\* log.Printf("gRPC: Received ... message %d: %s", messageCount, name) after a
\* message was received and counted.
RecvLogOf(c) ==
    LET m == method[c]
        tail == " message " \o Itoa(messageCount[c] + 1) \o ": " \o
                inputs[c][recvd[c] + 1]
    IN  CASE m = "SayHelloClientStream" ->
                L(165, "gRPC: Received client stream" \o tail)
          [] m = "SayHelloBidirectional" ->
                L(221, "gRPC: Received bidirectional" \o tail)
          [] m = "SayGoodbyeClientStream" ->
                L(369, "gRPC: Received goodbye client stream" \o tail)
          [] m = "SayGoodbyeBidirectional" ->
                L(434, "gRPC: Received goodbye bidirectional" \o tail)

\* What the method of call c logs with the call op it makes: its first line
\* before the header, a line per message received, in SayGoodbyeStream a line
\* per message sent, and nothing else; no branch taken on an error logs.
LogOf(c, op) ==
    IF op \in {"SendHeader", "SendHeader:err"} THEN <<EntryLogOf(c)>>
    ELSE IF op = "Recv" THEN <<RecvLogOf(c)>>
    ELSE IF op = "Send" /\ method[c] = "SayGoodbyeStream"
    THEN <<L(314, "gRPC: Sent goodbye message " \o Itoa(i[c] + 1) \o ": " \o
                  StreamReplyOf(method[c], In(c), i[c]))>>
    ELSE <<>>

\* The method of call c makes the call op and logs what goes with it.
Did(c, op) ==
    /\ ops' = [ops EXCEPT ![c] = Append(@, op)]
    /\ logs' = [logs EXCEPT ![c] = @ \o LogOf(c, op)]

\* ------------------------------------------------ unary: SayHello, SayGoodbye

\* Mutant of UnarySendHeader: the call to grpc.SendHeader is left out.
UnarySendHeaderForgotten(c) ==
    /\ method[c] \in UnaryMethods /\ pc[c] = "header"
    /\ Goto(c, "trailer")
    /\ UNCHANGED <<muxVars, method, i, messageCount, names, trailerMD, ret,
                   returned, ops, logs, peerVars, wire>>

\* grpc.SendHeader(ctx, header); its error is dropped.
UnarySendHeader(c) ==
    /\ method[c] \in UnaryMethods /\ pc[c] = "header"
    /\ wire' = [wire EXCEPT ![c] = WireAfterSendHeader(c, HeaderOf(method[c]))]
    /\ Did(c, IF SendHeaderOK(c) THEN "SendHeader" ELSE "SendHeader:err")
    /\ Goto(c, "trailer")
    /\ UNCHANGED <<muxVars, method, i, messageCount, names, trailerMD, ret,
                   returned, peerVars>>

\* grpc.SetTrailer(ctx, trailer); its error is dropped.
UnarySetTrailer(c) ==
    /\ method[c] \in UnaryMethods /\ pc[c] = "trailer"
    /\ trailerMD' = [trailerMD EXCEPT ![c] = TrailerAfterSet(c, UnaryTrailerOf(method[c]))]
    /\ Did(c, "SetTrailer")
    /\ Goto(c, "return")
    /\ UNCHANGED <<muxVars, method, i, messageCount, names, ret, returned,
                   peerVars, wire>>

\* return &HelloReply{...}, nil: the server sends the reply (after the header,
\* if it is still unsent) and then the status with the trailers.
UnaryReturn(c) ==
    /\ method[c] \in UnaryMethods /\ pc[c] = "return"
    /\ LET reply == UnaryReplyOf(method[c], In(c)) IN
       /\ returned' = [returned EXCEPT ![c] = Append(@, reply)]
       /\ wire' = [wire EXCEPT ![c] =
                     WireAfterStatus(c, WireAfterSend(c, reply), trailerMD[c], "OK")]
    /\ ret' = [ret EXCEPT ![c] = "nil"]
    /\ Did(c, "Return")
    /\ Goto(c, "done")
    /\ UNCHANGED <<muxVars, method, i, messageCount, names, trailerMD, peerVars>>

\* ------------------------- server-streaming: SayHelloStream, SayGoodbyeStream

\* Mutant of StreamSendHeader: stream.SendHeader is not called, the header is
\* left to the first Send.
StreamSendHeaderForgotten(c) ==
    /\ method[c] \in ServerStreamMethods /\ pc[c] = "header"
    /\ i' = [i EXCEPT ![c] = 0]
    /\ Goto(c, "send")
    /\ UNCHANGED <<muxVars, method, messageCount, names, trailerMD, ret,
                   returned, ops, logs, peerVars, wire>>

\* stream.SendHeader(header), then the loop is entered.
StreamSendHeader(c) ==
    /\ method[c] \in ServerStreamMethods /\ pc[c] = "header"
    /\ wire' = [wire EXCEPT ![c] = WireAfterSendHeader(c, HeaderOf(method[c]))]
    /\ Did(c, IF SendHeaderOK(c) THEN "SendHeader" ELSE "SendHeader:err")
    /\ i' = [i EXCEPT ![c] = 0]
    /\ Goto(c, IF 0 < StreamCountOf(method[c]) THEN "send" ELSE "trailer")
    /\ UNCHANGED <<muxVars, method, messageCount, names, trailerMD, ret,
                   returned, peerVars>>

\* Mutant of StreamSend: the error of stream.Send is dropped and the loop
\* goes on.
StreamSendIgnoresError(c) ==
    /\ method[c] \in ServerStreamMethods /\ pc[c] = "send"
    /\ wire' = [wire EXCEPT ![c] =
                  WireAfterSend(c, StreamReplyOf(method[c], In(c), i[c]))]
    /\ Did(c, IF SendOK(c) THEN "Send" ELSE "Send:err")
    /\ Goto(c, "sleep")
    /\ UNCHANGED <<muxVars, method, i, messageCount, names, trailerMD, ret,
                   returned, peerVars>>

\* if err := stream.Send(reply); err != nil { return err }
StreamSend(c) ==
    /\ method[c] \in ServerStreamMethods /\ pc[c] = "send"
    /\ wire' = [wire EXCEPT ![c] =
                  WireAfterSend(c, StreamReplyOf(method[c], In(c), i[c]))]
    /\ IF SendOK(c)
       THEN /\ Did(c, "Send")
            /\ Goto(c, "sleep")
            /\ ret' = ret
       ELSE /\ Did(c, "Send:err")
            /\ Goto(c, "done")
            /\ ret' = [ret EXCEPT ![c] = "err"]
    /\ UNCHANGED <<muxVars, method, i, messageCount, names, trailerMD, returned,
                   peerVars>>

\* Mutant of StreamSleep: stream.SetTrailer sits inside the loop.
StreamSleepSetsTrailer(c) ==
    /\ method[c] \in ServerStreamMethods /\ pc[c] = "sleep"
    /\ ops' = [ops EXCEPT ![c] = @ \o <<"Sleep", "SetTrailer">>]
    /\ logs' = logs
    /\ trailerMD' = [trailerMD EXCEPT ![c] = TrailerAfterSet(c, StreamTrailerOf(method[c]))]
    /\ i' = [i EXCEPT ![c] = @ + 1]
    /\ Goto(c, IF i[c] + 1 < StreamCountOf(method[c]) THEN "send" ELSE "trailer")
    /\ UNCHANGED <<muxVars, method, messageCount, names, ret, returned,
                   peerVars, wire>>

\* time.Sleep(...), then i++ and the loop test.
StreamSleep(c) ==
    /\ method[c] \in ServerStreamMethods /\ pc[c] = "sleep"
    /\ Did(c, "Sleep")
    /\ i' = [i EXCEPT ![c] = @ + 1]
    /\ Goto(c, IF i[c] + 1 < StreamCountOf(method[c]) THEN "send" ELSE "trailer")
    /\ UNCHANGED <<muxVars, method, messageCount, names, trailerMD, ret,
                   returned, peerVars, wire>>

\* stream.SetTrailer(trailer)
StreamSetTrailer(c) ==
    /\ method[c] \in ServerStreamMethods /\ pc[c] = "trailer"
    /\ trailerMD' = [trailerMD EXCEPT ![c] = TrailerAfterSet(c, StreamTrailerOf(method[c]))]
    /\ Did(c, "SetTrailer")
    /\ Goto(c, "return")
    /\ UNCHANGED <<muxVars, method, i, messageCount, names, ret, returned,
                   peerVars, wire>>

\* return nil: the server writes the status and the trailers.
StreamReturn(c) ==
    /\ method[c] \in ServerStreamMethods /\ pc[c] = "return"
    /\ wire' = [wire EXCEPT ![c] = WireAfterStatus(c, wire[c], trailerMD[c], "OK")]
    /\ ret' = [ret EXCEPT ![c] = "nil"]
    /\ Did(c, "Return")
    /\ Goto(c, "done")
    /\ UNCHANGED <<muxVars, method, i, messageCount, names, trailerMD, returned,
                   peerVars>>

\* -------------- client-streaming: SayHelloClientStream, SayGoodbyeClientStream

\* stream.SendHeader(header); names and messageCount start empty and 0.
\* Mutant of ClientStreamSendHeader: stream.SendHeader is not called, the
\* header is left to go out with the first message the method sends.
ClientStreamSendHeaderForgotten(c) ==
    /\ method[c] \in ClientStreamMethods /\ pc[c] = "header"
    /\ names' = [names EXCEPT ![c] = <<>>]
    /\ messageCount' = [messageCount EXCEPT ![c] = 0]
    /\ Goto(c, "recv")
    /\ UNCHANGED <<muxVars, method, i, trailerMD, ret, returned, ops, logs,
                   peerVars, wire>>

ClientStreamSendHeader(c) ==
    /\ method[c] \in ClientStreamMethods /\ pc[c] = "header"
    /\ wire' = [wire EXCEPT ![c] = WireAfterSendHeader(c, HeaderOf(method[c]))]
    /\ Did(c, IF SendHeaderOK(c) THEN "SendHeader" ELSE "SendHeader:err")
    /\ names' = [names EXCEPT ![c] = <<>>]
    /\ messageCount' = [messageCount EXCEPT ![c] = 0]
    /\ Goto(c, "recv")
    /\ UNCHANGED <<muxVars, method, i, trailerMD, ret, returned, peerVars>>

\* Mutant of ClientStreamRecv: every error of stream.Recv ends the loop the way
\* io.EOF does.
ClientStreamRecvBreaksOnError(c) ==
    /\ method[c] \in ClientStreamMethods /\ pc[c] = "recv"
    /\ \/ /\ RecvHasMessage(c)
          /\ recvd' = [recvd EXCEPT ![c] = @ + 1]
          /\ messageCount' = [messageCount EXCEPT ![c] = @ + 1]
          /\ names' = [names EXCEPT ![c] = Append(@, inputs[c][recvd[c] + 1])]
          /\ Did(c, "Recv")
          /\ UNCHANGED <<pc, ret>>
       \/ /\ RecvEOF(c)
          /\ Did(c, "Recv:EOF")
          /\ Goto(c, "trailer")
          /\ UNCHANGED <<recvd, messageCount, names, ret>>
       \/ /\ RecvError(c)
          /\ Did(c, "Recv:err")
          /\ Goto(c, "trailer")
          /\ UNCHANGED <<recvd, messageCount, names, ret>>
    /\ UNCHANGED <<muxVars, method, i, trailerMD, returned, inputs, closed,
                   broken, client, wire, demo>>

\* Mutant of ClientStreamRecv: names and messageCount are fields of the server
\* struct, one copy for all calls.
ClientStreamRecvSharedFields(c) ==
    /\ method[c] \in ClientStreamMethods /\ pc[c] = "recv"
    /\ \/ /\ RecvHasMessage(c)
          /\ recvd' = [recvd EXCEPT ![c] = @ + 1]
          /\ messageCount' = [d \in Calls |-> messageCount[d] + 1]
          /\ names' = [d \in Calls |-> Append(names[d], inputs[c][recvd[c] + 1])]
          /\ Did(c, "Recv")
          /\ UNCHANGED <<pc, ret>>
       \/ /\ RecvEOF(c)
          /\ Did(c, "Recv:EOF")
          /\ Goto(c, "trailer")
          /\ UNCHANGED <<recvd, messageCount, names, ret>>
       \/ /\ RecvError(c)
          /\ Did(c, "Recv:err")
          /\ Goto(c, "done")
          /\ ret' = [ret EXCEPT ![c] = "err"]
          /\ UNCHANGED <<recvd, messageCount, names>>
    /\ UNCHANGED <<muxVars, method, i, trailerMD, returned, inputs, closed,
                   broken, client, wire, demo>>

\* Mutant of ClientStreamRecv: names = []string{req.GetName()} instead of the
\* append, so only the last name is kept.
ClientStreamRecvKeepsLast(c) ==
    /\ method[c] \in ClientStreamMethods /\ pc[c] = "recv"
    /\ \/ /\ RecvHasMessage(c)
          /\ recvd' = [recvd EXCEPT ![c] = @ + 1]
          /\ messageCount' = [messageCount EXCEPT ![c] = @ + 1]
          /\ names' = [names EXCEPT ![c] = <<inputs[c][recvd[c] + 1]>>]
          /\ Did(c, "Recv")
          /\ UNCHANGED <<pc, ret>>
       \/ /\ RecvEOF(c)
          /\ Did(c, "Recv:EOF")
          /\ Goto(c, "trailer")
          /\ UNCHANGED <<recvd, messageCount, names, ret>>
       \/ /\ RecvError(c)
          /\ Did(c, "Recv:err")
          /\ Goto(c, "done")
          /\ ret' = [ret EXCEPT ![c] = "err"]
          /\ UNCHANGED <<recvd, messageCount, names>>
    /\ UNCHANGED <<muxVars, method, i, trailerMD, returned, inputs, closed,
                   broken, client, wire, demo>>

\* One pass of the receive loop: req, err := stream.Recv() and what follows.
ClientStreamRecv(c) ==
    /\ method[c] \in ClientStreamMethods /\ pc[c] = "recv"
    /\ \/ \* a message: count it and keep its name
          /\ RecvHasMessage(c)
          /\ recvd' = [recvd EXCEPT ![c] = @ + 1]
          /\ messageCount' = [messageCount EXCEPT ![c] = @ + 1]
          /\ names' = [names EXCEPT ![c] = Append(@, inputs[c][recvd[c] + 1])]
          /\ Did(c, "Recv")
          /\ UNCHANGED <<pc, ret>>
       \/ \* err == io.EOF: break
          /\ RecvEOF(c)
          /\ Did(c, "Recv:EOF")
          /\ Goto(c, "trailer")
          /\ UNCHANGED <<recvd, messageCount, names, ret>>
       \/ \* err != nil: return err
          /\ RecvError(c)
          /\ Did(c, "Recv:err")
          /\ Goto(c, "done")
          /\ ret' = [ret EXCEPT ![c] = "err"]
          /\ UNCHANGED <<recvd, messageCount, names>>
    /\ UNCHANGED <<muxVars, method, i, trailerMD, returned, inputs, closed,
                   broken, client, wire, demo>>

\* stream.SetTrailer(trailer), the trailer built from messageCount and names.
ClientStreamSetTrailer(c) ==
    /\ method[c] \in ClientStreamMethods /\ pc[c] = "trailer"
    /\ trailerMD' = [trailerMD EXCEPT ![c] =
          TrailerAfterSet(c, ClientStreamTrailerOf(method[c], messageCount[c], names[c]))]
    /\ Did(c, "SetTrailer")
    /\ Goto(c, "close")
    /\ UNCHANGED <<muxVars, method, i, messageCount, names, ret, returned,
                   peerVars, wire>>

\* return stream.SendAndClose(&HelloReply{Message: summary}): sends the one
\* reply; its error, if any, is what the method returns.
ClientStreamSendAndClose(c) ==
    /\ method[c] \in ClientStreamMethods /\ pc[c] = "close"
    /\ wire' = [wire EXCEPT ![c] =
          WireAfterStatus(c, WireAfterSend(c, SummaryOf(method[c], names[c])),
                          trailerMD[c], "OK")]
    /\ Did(c, IF SendOK(c) THEN "SendAndClose" ELSE "SendAndClose:err")
    /\ ret' = [ret EXCEPT ![c] = IF SendOK(c) THEN "nil" ELSE "err"]
    /\ Goto(c, "done")
    /\ UNCHANGED <<muxVars, method, i, messageCount, names, trailerMD, returned,
                   peerVars>>

\* ------------------ bidirectional: SayHelloBidirectional, SayGoodbyeBidirectional

\* stream.SendHeader(header); messageCount and processedNames start 0 and empty.
BidiSendHeader(c) ==
    /\ method[c] \in BidiMethods /\ pc[c] = "header"
    /\ wire' = [wire EXCEPT ![c] = WireAfterSendHeader(c, HeaderOf(method[c]))]
    /\ Did(c, IF SendHeaderOK(c) THEN "SendHeader" ELSE "SendHeader:err")
    /\ names' = [names EXCEPT ![c] = <<>>]
    /\ messageCount' = [messageCount EXCEPT ![c] = 0]
    /\ Goto(c, "recv")
    /\ UNCHANGED <<muxVars, method, i, trailerMD, ret, returned, peerVars>>

\* Mutant of BidiRecv: the test err == io.EOF is missing, end-of-input is
\* returned as an error like any other.
BidiRecvEOFIsError(c) ==
    /\ method[c] \in BidiMethods /\ pc[c] = "recv"
    /\ \/ /\ RecvHasMessage(c)
          /\ recvd' = [recvd EXCEPT ![c] = @ + 1]
          /\ messageCount' = [messageCount EXCEPT ![c] = @ + 1]
          /\ names' = [names EXCEPT ![c] = Append(@, inputs[c][recvd[c] + 1])]
          /\ Did(c, "Recv")
          /\ Goto(c, "send")
          /\ ret' = ret
       \/ /\ RecvEOF(c)
          /\ Did(c, "Recv:EOF")
          /\ Goto(c, "done")
          /\ ret' = [ret EXCEPT ![c] = "err"]
          /\ UNCHANGED <<recvd, messageCount, names>>
       \/ /\ RecvError(c)
          /\ Did(c, "Recv:err")
          /\ Goto(c, "done")
          /\ ret' = [ret EXCEPT ![c] = "err"]
          /\ UNCHANGED <<recvd, messageCount, names>>
    /\ UNCHANGED <<muxVars, method, i, trailerMD, returned, inputs, closed,
                   broken, client, wire, demo>>

\* Mutant of BidiRecv: the method takes every message that is there before it
\* replies.
BidiRecvBatches(c) ==
    /\ method[c] \in BidiMethods /\ pc[c] = "recv"
    /\ \/ /\ RecvHasMessage(c)
          /\ recvd' = [recvd EXCEPT ![c] = @ + 1]
          /\ messageCount' = [messageCount EXCEPT ![c] = @ + 1]
          /\ names' = [names EXCEPT ![c] = Append(@, inputs[c][recvd[c] + 1])]
          /\ Did(c, "Recv")
          /\ Goto(c, IF recvd[c] + 1 < Len(inputs[c]) THEN "recv" ELSE "send")
          /\ ret' = ret
       \/ /\ RecvEOF(c)
          /\ Did(c, "Recv:EOF")
          /\ Goto(c, "trailer")
          /\ UNCHANGED <<recvd, messageCount, names, ret>>
       \/ /\ RecvError(c)
          /\ Did(c, "Recv:err")
          /\ Goto(c, "done")
          /\ ret' = [ret EXCEPT ![c] = "err"]
          /\ UNCHANGED <<recvd, messageCount, names>>
    /\ UNCHANGED <<muxVars, method, i, trailerMD, returned, inputs, closed,
                   broken, client, wire, demo>>

\* req, err := stream.Recv() at the top of the loop, and what follows up to
\* the reply being built.
\* Mutant of BidiRecv: messageCount++ comes before the test of err, so that
\* the end of the input and an error are counted.
BidiRecvCountsFirst(c) ==
    /\ method[c] \in BidiMethods /\ pc[c] = "recv"
    /\ messageCount' = [messageCount EXCEPT ![c] = @ + 1]
    /\ \/ /\ RecvHasMessage(c)
          /\ recvd' = [recvd EXCEPT ![c] = @ + 1]
          /\ names' = [names EXCEPT ![c] = Append(@, inputs[c][recvd[c] + 1])]
          /\ Did(c, "Recv")
          /\ Goto(c, "send")
          /\ ret' = ret
       \/ /\ RecvEOF(c)
          /\ Did(c, "Recv:EOF")
          /\ Goto(c, "trailer")
          /\ UNCHANGED <<recvd, names, ret>>
       \/ /\ RecvError(c)
          /\ Did(c, "Recv:err")
          /\ Goto(c, "done")
          /\ ret' = [ret EXCEPT ![c] = "err"]
          /\ UNCHANGED <<recvd, names>>
    /\ UNCHANGED <<muxVars, method, i, trailerMD, returned, inputs, closed,
                   broken, client, wire, demo>>

BidiRecv(c) ==
    /\ method[c] \in BidiMethods /\ pc[c] = "recv"
    /\ \/ \* a message: messageCount++, processedNames = append(...)
          /\ RecvHasMessage(c)
          /\ recvd' = [recvd EXCEPT ![c] = @ + 1]
          /\ messageCount' = [messageCount EXCEPT ![c] = @ + 1]
          /\ names' = [names EXCEPT ![c] = Append(@, inputs[c][recvd[c] + 1])]
          /\ Did(c, "Recv")
          /\ Goto(c, "send")
          /\ ret' = ret
       \/ \* err == io.EOF: break
          /\ RecvEOF(c)
          /\ Did(c, "Recv:EOF")
          /\ Goto(c, "trailer")
          /\ UNCHANGED <<recvd, messageCount, names, ret>>
       \/ \* err != nil: return err
          /\ RecvError(c)
          /\ Did(c, "Recv:err")
          /\ Goto(c, "done")
          /\ ret' = [ret EXCEPT ![c] = "err"]
          /\ UNCHANGED <<recvd, messageCount, names>>
    /\ UNCHANGED <<muxVars, method, i, trailerMD, returned, inputs, closed,
                   broken, client, wire, demo>>

\* Mutant of BidiSend: the error of stream.Send is dropped and the loop goes
\* on.
BidiSendIgnoresError(c) ==
    /\ method[c] \in BidiMethods /\ pc[c] = "send"
    /\ wire' = [wire EXCEPT ![c] =
          WireAfterSend(c, BidiReplyOf(method[c], names[c][Len(names[c])],
                                       messageCount[c]))]
    /\ Did(c, IF SendOK(c) THEN "Send" ELSE "Send:err")
    /\ Goto(c, "sleep")
    /\ UNCHANGED <<muxVars, method, i, messageCount, names, trailerMD, ret,
                   returned, peerVars>>

\* if err := stream.Send(&HelloReply{Message: response}); err != nil { return err }
\* The reply is built from the name just received and messageCount.
BidiSend(c) ==
    /\ method[c] \in BidiMethods /\ pc[c] = "send"
    /\ wire' = [wire EXCEPT ![c] =
          WireAfterSend(c, BidiReplyOf(method[c], names[c][Len(names[c])],
                                       messageCount[c]))]
    /\ IF SendOK(c)
       THEN /\ Did(c, "Send")
            /\ Goto(c, "sleep")
            /\ ret' = ret
       ELSE /\ Did(c, "Send:err")
            /\ Goto(c, "done")
            /\ ret' = [ret EXCEPT ![c] = "err"]
    /\ UNCHANGED <<muxVars, method, i, messageCount, names, trailerMD, returned,
                   peerVars>>

\* Mutant of BidiSleep: the delay selects on the context of the call and the
\* method returns its error when the call is cancelled meanwhile.
BidiSleepCancellable(c) ==
    /\ method[c] \in BidiMethods /\ pc[c] = "sleep"
    /\ IF broken[c]
       THEN /\ Did(c, "Sleep:err")
            /\ Goto(c, "done")
            /\ ret' = [ret EXCEPT ![c] = "err"]
       ELSE /\ Did(c, "Sleep")
            /\ Goto(c, "recv")
            /\ ret' = ret
    /\ UNCHANGED <<muxVars, method, i, messageCount, names, trailerMD,
                   returned, peerVars, wire>>

\* time.Sleep(...), then back to the top of the loop.
BidiSleep(c) ==
    /\ method[c] \in BidiMethods /\ pc[c] = "sleep"
    /\ Did(c, "Sleep")
    /\ Goto(c, "recv")
    /\ UNCHANGED <<muxVars, method, i, messageCount, names, trailerMD, ret,
                   returned, peerVars, wire>>

\* stream.SetTrailer(trailer), the trailer built from messageCount and
\* processedNames.
BidiSetTrailer(c) ==
    /\ method[c] \in BidiMethods /\ pc[c] = "trailer"
    /\ trailerMD' = [trailerMD EXCEPT ![c] =
          TrailerAfterSet(c, BidiTrailerOf(method[c], messageCount[c], names[c]))]
    /\ Did(c, "SetTrailer")
    /\ Goto(c, "return")
    /\ UNCHANGED <<muxVars, method, i, messageCount, names, ret, returned,
                   peerVars, wire>>

\* return nil: the server writes the status and the trailers.
BidiReturn(c) ==
    /\ method[c] \in BidiMethods /\ pc[c] = "return"
    /\ wire' = [wire EXCEPT ![c] = WireAfterStatus(c, wire[c], trailerMD[c], "OK")]
    /\ ret' = [ret EXCEPT ![c] = "nil"]
    /\ Did(c, "Return")
    /\ Goto(c, "done")
    /\ UNCHANGED <<muxVars, method, i, messageCount, names, trailerMD, returned,
                   peerVars>>

\* ------------------------------------------------------------------ the peer

\* The service method of call c is running.
Running(c) == method[c] # "" /\ pc[c] # "done"

\* The client sends one more message on its stream.
ClientSend(c, n) ==
    /\ Running(c) /\ method[c] \in ClientStreamMethods \cup BidiMethods
    /\ ~closed[c] /\ ~broken[c]
    /\ Len(inputs[c]) < MaxInputs
    /\ inputs' = [inputs EXCEPT ![c] = Append(@, n)]
    /\ UNCHANGED <<muxVars, handlerVars, recvd, closed, broken, client, wire, demo>>

\* The client half-closes: CloseSend / CloseAndRecv.
ClientCloseSend(c) ==
    /\ Running(c) /\ method[c] \in ClientStreamMethods \cup BidiMethods
    /\ ~closed[c] /\ ~broken[c]
    /\ closed' = [closed EXCEPT ![c] = TRUE]
    /\ UNCHANGED <<muxVars, handlerVars, inputs, recvd, broken, client, wire, demo>>

\* The peer goes away (disconnect, cancellation, deadline): from now on the
\* transport reports errors.
Disconnect(c) ==
    /\ Running(c)
    /\ ~broken[c]
    /\ broken' = [broken EXCEPT ![c] = TRUE]
    /\ UNCHANGED <<muxVars, handlerVars, inputs, recvd, closed, client, wire, demo>>

\* ------------------------------------------------------------ specification

\* Mutant of HandlerStep: the methods share one lock that a method holds
\* while it sleeps.
HandlerStepUnderLock(c) ==
    /\ \A d \in Calls \ {c} : pc[d] # "sleep"
    /\ \/ UnarySendHeader(c) \/ UnarySetTrailer(c) \/ UnaryReturn(c)
       \/ StreamSendHeader(c) \/ StreamSend(c) \/ StreamSleep(c)
       \/ StreamSetTrailer(c) \/ StreamReturn(c)
       \/ ClientStreamSendHeader(c) \/ ClientStreamRecv(c)
       \/ ClientStreamSetTrailer(c) \/ ClientStreamSendAndClose(c)
       \/ BidiSendHeader(c) \/ BidiRecv(c) \/ BidiSend(c) \/ BidiSleep(c)
       \/ BidiSetTrailer(c) \/ BidiReturn(c)

\* One statement of the service method of call c.
HandlerStep(c) ==
    \/ UnarySendHeader(c) \/ UnarySetTrailer(c) \/ UnaryReturn(c)
    \/ StreamSendHeader(c) \/ StreamSend(c) \/ StreamSleep(c)
    \/ StreamSetTrailer(c) \/ StreamReturn(c)
    \/ ClientStreamSendHeader(c) \/ ClientStreamRecv(c)
    \/ ClientStreamSetTrailer(c) \/ ClientStreamSendAndClose(c)
    \/ BidiSendHeader(c) \/ BidiRecv(c) \/ BidiSend(c) \/ BidiSleep(c)
    \/ BidiSetTrailer(c) \/ BidiReturn(c)

PeerStep(c) ==
    \/ \E n \in Names : ClientSend(c, n)
    \/ ClientCloseSend(c)
    \/ Disconnect(c)

\* A request arrives and the multiplexed handler serves it.
Serve(c) ==
    /\ req[c] = NoReq
    /\ \E r \in Requests : MultiplexedHandler(c, r)

\* The calls of the sequential specification: one request at a time.
OneCall == {"c1"}

Next ==
    \E c \in OneCall :
        \/ Serve(c)
        \/ HandlerStep(c)
        \/ PeerStep(c)

Spec == Init /\ [][Next]_vars

\* Every service method runs in its own goroutine, which the scheduler does not
\* starve: a statement that can execute eventually does.  Nothing is assumed of
\* the peer.
FairSpec == Spec /\ \A c \in OneCall : WF_vars(HandlerStep(c))

\* ---- several calls at once

\* The requests of the concurrent specification: one gRPC call of each shape,
\* carrying the name Bob where the request carries one, and one REST request.
ConcRequests ==
    {r \in Requests :
        /\ r.query = ""
        /\ \/ /\ r.proto = 2 /\ r.ctype = "application/grpc" /\ r.method = "POST"
              /\ r.path \in {MethodPath(m) : m \in HelloMethods}
              /\ r.body = [kind |-> "frames", obj |-> ProtoFields("Bob")]
           \/ /\ r.proto = 1 /\ r.ctype = "" /\ r.method = "GET"
              /\ r.path = "/health"
              /\ r.body = BodyOfText("xyz")}

\* The net/http server accepts a request and runs the multiplexed handler for
\* it in a goroutine of its own, whatever the other calls are doing.
ConcServe(c) ==
    /\ req[c] = NoReq
    /\ \E r \in ConcRequests : MultiplexedHandler(c, r)

\* The name each client of the concurrent specification streams.
StreamedName(c) == IF c = "c1" THEN "Bob" ELSE "World"

ConcPeerStep(c) ==
    \/ ClientSend(c, StreamedName(c))
    \/ ClientCloseSend(c)
    \/ Disconnect(c)

\* Every call runs in its own goroutine: the steps of the calls interleave.
ConcNext ==
    \E c \in Calls :
        \/ ConcServe(c)
        \/ HandlerStep(c)
        \/ ConcPeerStep(c)

ConcSpec == Init /\ [][ConcNext]_vars

\* The goroutine of the second call is not starved; nothing is assumed of the
\* first call, which may stay in a sleep for as long as it likes, nor of the
\* peers.
ConcFairSpec == ConcSpec /\ WF_vars(HandlerStep("c2"))

\* ------------------------------------------ the demo client, bidirectional

\* bidiNames and goodbyeBidiNames: what the sender goroutine sends.
DemoNamesOf(m) ==
    IF m = "SayHelloBidirectional" THEN <<"Emma", "Frank", "Grace">>
    ELSE <<"Maya", "Noah", "Olivia", "Paul">>

\* Flow control: the messages of one direction the transport holds for a
\* reader that has not taken them yet; a Send beyond that blocks.
Window == 1

\* Messages the client has sent that the method has not received, and replies
\* the method has sent that the client has not received.
InFlight(c) == Len(inputs[c]) - recvd[c]
Unread(c) ==
    Cardinality({k \in 1..Len(wire[c]) : wire[c][k].kind = "M"})
        - Len(client[c].replies)

\* helloClient.SayHelloBidirectional(bidiCtx), goodbyeClient.SayGoodbye...:
\* the call of a bidirectional method over HTTP/2.
DemoRequests ==
    {r \in Requests :
        /\ r.proto = 2 /\ r.ctype = "application/grpc" /\ r.method = "POST"
        /\ r.path \in {MethodPath(m) : m \in BidiMethods}
        /\ r.query = ""
        /\ r.body = [kind |-> "frames", obj |-> ProtoFields("")]}

DemoServe(c) ==
    /\ req[c] = NoReq
    /\ \E r \in DemoRequests : MultiplexedHandler(c, r)

\* The method of the call, its Send held back by flow control while the client
\* has Window replies to read.
DemoHandlerStep(c) ==
    \/ BidiSendHeader(c)
    \/ BidiRecv(c)
    \/ (broken[c] \/ Unread(c) < Window) /\ BidiSend(c)
    \/ BidiSleep(c)
    \/ BidiSetTrailer(c)
    \/ BidiReturn(c)

\* bidiStream.Header(): blocks until the header frame is there or the stream
\* has failed (which is logged only); then go func() starts the sender.
DemoHeader(c) ==
    /\ method[c] \in BidiMethods
    /\ client[c].main = "header"
    /\ Len(wire[c]) > 0 \/ broken[c]
    /\ client' = [client EXCEPT ![c].main = "recv", ![c].sender = "send"]
    /\ UNCHANGED <<muxVars, handlerVars, inputs, recvd, closed, broken, wire, demo>>

\* bidiStream.Send(&HelloRequest{Name: name}) of the sender: on an error the
\* goroutine returns, without CloseSend.
DemoSend(c) ==
    /\ client[c].sender = "send"
    /\ IF broken[c]
       THEN /\ client' = [client EXCEPT ![c].sender = "done"]
            /\ inputs' = inputs
       ELSE /\ InFlight(c) < Window
            /\ inputs' = [inputs EXCEPT ![c] =
                   Append(@, DemoNamesOf(method[c])[Len(@) + 1])]
            /\ client' = [client EXCEPT ![c].sender = "sleep"]
    /\ UNCHANGED <<muxVars, handlerVars, recvd, closed, broken, wire, demo>>

\* time.Sleep(...) of the sender, then the next name or, after the last,
\* CloseSend.
DemoSleep(c) ==
    /\ client[c].sender = "sleep"
    /\ client' = [client EXCEPT ![c].sender =
          IF Len(inputs[c]) < Len(DemoNamesOf(method[c])) THEN "send" ELSE "close"]
    /\ UNCHANGED <<muxVars, handlerVars, inputs, recvd, closed, broken, wire, demo>>

\* Mutant of DemoCloseSend: the sender goroutine ends without CloseSend.
DemoCloseSendForgotten(c) ==
    /\ client[c].sender = "close"
    /\ client' = [client EXCEPT ![c].sender = "done"]
    /\ UNCHANGED <<muxVars, handlerVars, inputs, recvd, closed, broken, wire, demo>>

\* bidiStream.CloseSend(), the last statement of the sender.
DemoCloseSend(c) ==
    /\ client[c].sender = "close"
    /\ closed' = [closed EXCEPT ![c] = TRUE]
    /\ client' = [client EXCEPT ![c].sender = "done"]
    /\ UNCHANGED <<muxVars, handlerVars, inputs, recvd, broken, wire, demo>>

\* reply, err := bidiStream.Recv() of the receive loop: a reply is counted,
\* io.EOF (the status frame, OK) ends the loop, another error is fatal to the
\* client process, sender included.
DemoRecv(c) ==
    /\ client[c].main = "recv"
    /\ \/ /\ Len(client[c].replies) + 2 <= Len(wire[c])
          /\ LET f == wire[c][Len(client[c].replies) + 2]
             IN client' = [client EXCEPT ![c] =
                   CASE f.kind = "M" -> [@ EXCEPT !.replies = Append(@, f.msg)]
                     [] f.kind = "T" /\ f.status = "OK" -> [@ EXCEPT !.main = "eof"]
                     [] OTHER -> [@ EXCEPT !.main = "fatal", !.sender = "done"]]
       \/ /\ broken[c]
          /\ client' = [client EXCEPT ![c].main = "fatal", ![c].sender = "done"]
    /\ UNCHANGED <<muxVars, handlerVars, inputs, recvd, closed, broken, wire, demo>>

\* The two tasks of the client.
DemoSender(c) == DemoSend(c) \/ DemoSleep(c) \/ DemoCloseSend(c)
DemoReceiver(c) == DemoHeader(c) \/ DemoRecv(c)

DemoNext ==
    \E c \in OneCall :
        \/ DemoServe(c)
        \/ DemoHandlerStep(c)
        \/ DemoSender(c)
        \/ DemoReceiver(c)
        \/ Disconnect(c)

DemoSpec == Init /\ [][DemoNext]_vars

\* The method and the two tasks of the client each run in a goroutine of their
\* own that the scheduler does not starve.  Nothing is assumed of the network.
DemoFairSpec ==
    DemoSpec /\ \A c \in OneCall :
        /\ WF_vars(DemoHandlerStep(c))
        /\ WF_vars(DemoSender(c))
        /\ WF_vars(DemoReceiver(c))

\* ----------------------------------------------- the demo client, its main

\* The calls main makes, in the order it makes them.
MainCalls ==
    <<"SayHello", "SayHelloStream", "SayHelloClientStream",
      "SayHelloBidirectional", "SayGoodbye", "SayGoodbyeStream",
      "SayGoodbyeClientStream", "SayGoodbyeBidirectional">>

\* defaultName, the name of the unary and the server-streaming calls.
defaultName == "World"

\* context.WithTimeout(ctx, time.Second): the deadline of a unary call, in
\* seconds.  The streaming calls run on context.Background(): none (0).
DemoTimeout == 1
DeadlineOf(m) == IF m \in UnaryMethods THEN DemoTimeout ELSE 0

\* names and goodbyeNames of the client-streaming calls; DemoNamesOf for the
\* bidirectional ones.
MainNamesOf(m) ==
    CASE m = "SayHelloClientStream" -> <<"Alice", "Bob", "Charlie", "Diana">>
      [] m = "SayGoodbyeClientStream" -> <<"Helen", "Ivan", "Julia", "Kevin", "Luna">>
      [] m \in BidiMethods -> DemoNamesOf(m)
      [] OTHER -> <<>>

\* The errors a call of the client returns: gRPC statuses, the deadline's
\* among them (only a call that has a deadline can exceed it).
NoErr == [code |-> "OK", message |-> ""]
DeadlineExceeded == [code |-> "DeadlineExceeded", message |-> "context deadline exceeded"]
Unavailable == [code |-> "Unavailable", message |-> "connection error"]
ErrorsOf(m) ==
    IF DeadlineOf(m) > 0 THEN {DeadlineExceeded, Unavailable} ELSE {Unavailable}

\* The server's call that serves a unary call of the client.
MainCallOf(m) == IF m = "SayHello" THEN "c1" ELSE "c2"

\* The request of a unary call, as grpc-go sends it over HTTP/2.
MainRequestOf(m) ==
    [proto |-> 2, ctype |-> "application/grpc", method |-> "POST",
     path |-> MethodPath(m), query |-> "",
     body |-> [kind |-> "frames", obj |-> ProtoFields(defaultName)]]

\* What main has attempted: a call (op "call") or a Send (op "send", arg the
\* name), the deadline it ran under and the error it returned (NoErr: none).
Attempt(m, op, arg, err) ==
    [m |-> m, op |-> op, arg |-> arg, deadline |-> DeadlineOf(m), err |-> err]

\* printResponseInfo(ctx, err, name) for err # nil: st.Code() and
\* st.Message() of the status (status.FromError is ok for every error a call
\* returns).
printResponseInfo(err) == [code |-> err.code, message |-> err.message]

AtMethod == IF demo.at <= Len(MainCalls) THEN MainCalls[demo.at] ELSE ""
MainRunning(step) == demo.phase = "running" /\ demo.step = step

\* The call is over and main goes on to the next one.
MainGoesOn(d) == [d EXCEPT !.at = @ + 1, !.step = "call", !.sent = 0]

\* Mutant of MainFatal: the call that failed is made again.
MainFatalRetries(d) == [d EXCEPT !.step = "call", !.sent = 0]

\* log.Fatalf(...): the process ends with status 1.
MainFatal(d) == [d EXCEPT !.phase = "exited", !.exit = 1]

\* A step of main alone.
MainOnly ==
    UNCHANGED <<muxVars, handlerVars, inputs, recvd, closed, broken, client, wire>>

\* r, err := helloClient.SayHello(ctx, ...), goodbyeClient.SayGoodbye(...)
\* under a context with a deadline of one second: the request leaves.
MainUnaryCall ==
    /\ MainRunning("call") /\ AtMethod \in UnaryMethods
    /\ demo' = [demo EXCEPT !.step = "wait",
                            !.hist = Append(@, Attempt(AtMethod, "call", "", NoErr))]
    /\ MainOnly

\* The request reaches the server, which serves it.
MainDeliver(c) ==
    /\ MainRunning("wait") /\ c = MainCallOf(AtMethod)
    /\ req[c] = NoReq /\ ~broken[c]
    /\ MultiplexedHandler(c, MainRequestOf(AtMethod))

\* The unary method of the server.
MainHandlerStep(c) == UnarySendHeader(c) \/ UnarySetTrailer(c) \/ UnaryReturn(c)

\* The call returns the reply: err == nil, main logs it and goes on.
MainUnaryReply(c) ==
    /\ MainRunning("wait") /\ c = MainCallOf(AtMethod)
    /\ pc[c] = "done" /\ ret[c] = "nil" /\ ~broken[c]
    /\ demo' = MainGoesOn(demo)
    /\ MainOnly

\* The call returns an error: the deadline passed before the reply was there,
\* or the connection failed.  Either way the server's side of the call is
\* cancelled.
MainUnaryFails(c) ==
    /\ MainRunning("wait") /\ c = MainCallOf(AtMethod)
    /\ \E err \in ErrorsOf(AtMethod) :
          demo' = [demo EXCEPT !.step = "err",
                               !.hist[Len(demo.hist)].err = err]
    /\ broken' = [broken EXCEPT ![c] = TRUE]
    /\ UNCHANGED <<muxVars, handlerVars, inputs, recvd, closed, client, wire>>

\* if err != nil { printResponseInfo(ctx, err, ...); log.Fatalf(...) }
MainUnaryFatal ==
    /\ MainRunning("err")
    /\ demo' = MainFatal([demo EXCEPT !.report =
                   printResponseInfo(demo.hist[Len(demo.hist)].err)])
    /\ MainOnly

\* stream, err := helloClient.SayHelloStream(...) and the other streaming
\* calls: the stream is there, or log.Fatalf (after printResponseInfo, for the
\* server-streaming calls).
MainStreamCall ==
    /\ MainRunning("call") /\ AtMethod # "" /\ AtMethod \notin UnaryMethods
    /\ \E err \in {NoErr} \cup ErrorsOf(AtMethod) :
        LET d == [demo EXCEPT !.hist = Append(@, Attempt(AtMethod, "call", "", err))]
        IN demo' =
             IF err = NoErr
             THEN [d EXCEPT !.step =
                     IF AtMethod \in ServerStreamMethods THEN "recv" ELSE "header"]
             ELSE MainFatal(IF AtMethod \in ServerStreamMethods
                            THEN [d EXCEPT !.report = printResponseInfo(err)]
                            ELSE d)
    /\ MainOnly

\* clientStream.Header(), bidiStream.Header(): an error is logged only.
MainHeader ==
    /\ MainRunning("header")
    /\ demo' = [demo EXCEPT !.step = "send"]
    /\ MainOnly

\* clientStream.Send(...), bidiStream.Send(...) of the next name.  On an
\* error the client-streaming call ends in log.Fatalf; the sender goroutine
\* of a bidirectional call returns and leaves main in its receive loop.
MainSend ==
    /\ MainRunning("send")
    /\ \E err \in {NoErr} \cup ErrorsOf(AtMethod) :
        LET name == MainNamesOf(AtMethod)[demo.sent + 1]
            d == [demo EXCEPT !.hist = Append(@, Attempt(AtMethod, "send", name, err))]
        IN demo' =
             IF err = NoErr
             THEN [d EXCEPT !.sent = @ + 1,
                            !.step = IF demo.sent + 1 = Len(MainNamesOf(AtMethod))
                                     THEN "recv" ELSE "send"]
             ELSE IF AtMethod \in BidiMethods
                  THEN [d EXCEPT !.step = "recv"]
                  ELSE MainFatal(d)
    /\ MainOnly

\* The replies: stream.Recv() up to io.EOF, clientStream.CloseAndRecv(); an
\* error is fatal.
MainRecv ==
    /\ MainRunning("recv")
    /\ \/ demo' = MainGoesOn(demo)
       \/ demo' = MainFatal(demo)
    /\ MainOnly

\* main returns after the last call.
MainReturn ==
    /\ MainRunning("call") /\ AtMethod = ""
    /\ demo' = [demo EXCEPT !.phase = "exited", !.exit = 0]
    /\ MainOnly

MainNext ==
    \/ MainUnaryCall
    \/ \E c \in Calls :
         \/ MainDeliver(c)
         \/ MainHandlerStep(c)
         \/ MainUnaryReply(c)
         \/ MainUnaryFails(c)
    \/ MainUnaryFatal
    \/ MainStreamCall
    \/ MainHeader
    \/ MainSend
    \/ MainRecv
    \/ MainReturn

MainSpec == Init /\ [][MainNext]_vars

\* --------------------------------- the demo client, client-streaming calls

\* helloClient.SayHelloClientStream(ctx), goodbyeClient.SayGoodbyeClient...:
\* the call of a client-streaming method over HTTP/2.
DemoCSRequests ==
    {r \in Requests :
        /\ r.proto = 2 /\ r.ctype = "application/grpc" /\ r.method = "POST"
        /\ r.path \in {MethodPath(m) : m \in ClientStreamMethods}
        /\ r.query = ""
        /\ r.body = [kind |-> "frames", obj |-> ProtoFields("")]}

DemoCSServe(c) ==
    /\ req[c] = NoReq
    /\ \E r \in DemoCSRequests : MultiplexedHandler(c, r)

\* The client-streaming method of the call.
DemoCSHandlerStep(c) ==
    \/ ClientStreamSendHeader(c)
    \/ ClientStreamRecv(c)
    \/ ClientStreamSetTrailer(c)
    \/ ClientStreamSendAndClose(c)

\* clientStream.Header(): blocks until the header frame is there or the
\* stream has failed (which is logged only); main then starts to send.
DemoCSHeader(c) ==
    /\ method[c] \in ClientStreamMethods
    /\ client[c].main = "header"
    /\ Len(wire[c]) > 0 \/ broken[c]
    /\ client' = [client EXCEPT ![c].main = "send"]
    /\ UNCHANGED <<muxVars, handlerVars, inputs, recvd, closed, broken, wire, demo>>

\* clientStream.Send(&HelloRequest{Name: name}) in the loop of main: an error
\* is fatal.
DemoCSSend(c) ==
    /\ method[c] \in ClientStreamMethods
    /\ client[c].main = "send"
    /\ IF broken[c]
       THEN /\ client' = [client EXCEPT ![c].main = "fatal"]
            /\ inputs' = inputs
       ELSE /\ InFlight(c) < Window
            /\ inputs' = [inputs EXCEPT ![c] =
                   Append(@, MainNamesOf(method[c])[Len(@) + 1])]
            /\ client' = [client EXCEPT ![c].main = "sleep"]
    /\ UNCHANGED <<muxVars, handlerVars, recvd, closed, broken, wire, demo>>

\* time.Sleep(...) of the loop, then the next name or, after the last,
\* CloseAndRecv.
DemoCSSleep(c) ==
    /\ method[c] \in ClientStreamMethods
    /\ client[c].main = "sleep"
    /\ client' = [client EXCEPT ![c].main =
          IF Len(inputs[c]) < Len(MainNamesOf(method[c])) THEN "send" ELSE "close"]
    /\ UNCHANGED <<muxVars, handlerVars, inputs, recvd, closed, broken, wire, demo>>

\* clientStream.CloseAndRecv(), its first half: CloseSend.
DemoCSClose(c) ==
    /\ method[c] \in ClientStreamMethods
    /\ client[c].main = "close"
    /\ closed' = [closed EXCEPT ![c] = TRUE]
    /\ client' = [client EXCEPT ![c].main = "reply"]
    /\ UNCHANGED <<muxVars, handlerVars, inputs, recvd, broken, wire, demo>>

\* clientStream.CloseAndRecv(), its second half: the reply and the status, or
\* an error, which is fatal.
DemoCSReply(c) ==
    /\ method[c] \in ClientStreamMethods
    /\ client[c].main = "reply"
    /\ \/ /\ Len(wire[c]) > 0 /\ wire[c][Len(wire[c])].kind = "T"
          /\ client' = [client EXCEPT ![c] =
                IF wire[c][Len(wire[c])].status = "OK" /\ Len(wire[c]) = 3
                THEN [@ EXCEPT !.main = "eof", !.replies = <<wire[c][2].msg>>]
                ELSE [@ EXCEPT !.main = "fatal"]]
       \/ /\ broken[c]
          /\ client' = [client EXCEPT ![c].main = "fatal"]
    /\ UNCHANGED <<muxVars, handlerVars, inputs, recvd, closed, broken, wire, demo>>

\* main during a client-streaming call.
DemoCSMain(c) ==
    DemoCSHeader(c) \/ DemoCSSend(c) \/ DemoCSSleep(c) \/ DemoCSClose(c) \/ DemoCSReply(c)

\* The demo client's calls that send a stream, client-streaming and
\* bidirectional, one at a time.
UpNext ==
    \E c \in OneCall :
        \/ DemoServe(c)
        \/ DemoCSServe(c)
        \/ DemoHandlerStep(c)
        \/ DemoCSHandlerStep(c)
        \/ DemoSender(c)
        \/ DemoReceiver(c)
        \/ DemoCSMain(c)
        \/ Disconnect(c)

UpSpec == Init /\ [][UpNext]_vars

\* The method and the tasks of the client each run in a goroutine of their
\* own that the scheduler does not starve.  Nothing is assumed of the network.
UpFairSpec ==
    UpSpec /\ \A c \in OneCall :
        /\ WF_vars(DemoHandlerStep(c))
        /\ WF_vars(DemoCSHandlerStep(c))
        /\ WF_vars(DemoSender(c))
        /\ WF_vars(DemoReceiver(c))
        /\ WF_vars(DemoCSMain(c))

\* ------------------------------------ a long SayGoodbyeBidirectional call

\* The names the client of the long call sends.
FarewellNames == {"Bob", "World"}

\* goodbyeClient.SayGoodbyeBidirectional(ctx): the call arrives.
FarewellServe(c) ==
    /\ req[c] = NoReq
    /\ \E r \in DemoRequests :
          /\ r.path = MethodPath("SayGoodbyeBidirectional")
          /\ MultiplexedHandler(c, r)

\* stream.Send(&GoodbyeRequest{Name: n}) of the client.
FarewellClientSend(c, n) ==
    /\ Running(c) /\ ~closed[c] /\ ~broken[c]
    /\ Len(inputs[c]) < MaxFarewells
    /\ inputs' = [inputs EXCEPT ![c] = Append(@, n)]
    /\ UNCHANGED <<muxVars, handlerVars, recvd, closed, broken, client, wire, demo>>

\* The method of the call.
FarewellHandlerStep(c) ==
    \/ BidiSendHeader(c)
    \/ BidiRecv(c)
    \/ BidiSend(c)
    \/ BidiSleep(c)
    \/ BidiSetTrailer(c)
    \/ BidiReturn(c)

FarewellNext ==
    \E c \in OneCall :
        \/ FarewellServe(c)
        \/ \E n \in FarewellNames : FarewellClientSend(c, n)
        \/ ClientCloseSend(c)
        \/ FarewellHandlerStep(c)

FarewellSpec == Init /\ [][FarewellNext]_vars

\* ------------------------------- the API handlers, whatever the callee does

\* The two API routes.
RespondPaths == {Routes[1].path, Routes[2].path}

\* The requests on which an API handler comes to call its business function:
\* a GET, or a POST whose body decodes.
RespondRequests ==
    {r \in Requests :
        /\ r.proto = 1 /\ r.ctype = "application/json"
        /\ r.path \in RespondPaths
        /\ r.method = "GET" \/ (r.method = "POST" /\ DecodeOK(r.body))}

\* name as the handler has it when it builds grpcReq.
RespondName(r) ==
    LET given == IF r.method = "GET" THEN r.query ELSE DecodedName(r.body) IN
    IF r.path = Routes[1].path THEN HelloName(given) ELSE GoodbyeName(given)

\* What s.SayHello / s.SayGoodbye returns in this program.
RespondOutcome(r) ==
    IF r.path = Routes[1].path THEN SayHelloNoStream(RespondName(r))
    ELSE SayGoodbyeNoStream(RespondName(r))

\* The errors a function of the signature (*HelloReply, error) may return.
BusinessErrors ==
    {"rpc error: code = Internal desc = db at 10.0.0.7 is down",
     "context deadline exceeded"}

\* What a function of that signature may return: a reply and nil, or an error
\* with or without a reply.
RespondOutcomes(r) ==
    {RespondOutcome(r)} \cup
    {[reply |-> rep, err |-> e] :
        rep \in {"", RespondOutcome(r).reply}, e \in BusinessErrors}

\* One of the API handlers serves r and its business function returns out.
RespondServe(c, r, out) ==
    /\ req[c] = NoReq
    /\ req' = [req EXCEPT ![c] = r]
    /\ httpServed' = [httpServed EXCEPT ![c] = @ + 1]
    /\ returned' = [returned EXCEPT ![c] = <<out>>]
    /\ LET tail == IF r.path = Routes[1].path
                   THEN HelloRespondTo(APIHeaders, RespondName(r), out)
                   ELSE GoodbyeRespondTo(APIHeaders, RespondName(r), out)
           whole == Entered(IF r.path = Routes[1].path THEN 462 ELSE 523,
                            IF r.path = Routes[1].path
                            THEN "HTTP: Received SayHello request"
                            ELSE "HTTP: Received SayGoodbye request",
                            [tail EXCEPT !.decoded = IF r.method = "POST" THEN 1 ELSE 0])
       IN  /\ resp' = [resp EXCEPT ![c] = whole]
           /\ logs' = [logs EXCEPT ![c] = whole.logged]
    /\ UNCHANGED <<proc, grpcServed, method, pc, i, messageCount, names,
                   trailerMD, ret, ops, peerVars, wire>>

RespondNext ==
    \E c \in OneCall : \E r \in RespondRequests :
        \E out \in RespondOutcomes(r) : RespondServe(c, r, out)

\* The API handlers with the business function taken as any function of its
\* signature.
RespondSpec == Init /\ [][RespondNext]_vars

\* ------------------------------------------------------------ bootstrap

\* The environments main may start in: GRPC_PORT not set, set to the empty
\* string, or set to a port.
Envs == {<<>>, "GRPC_PORT" :> "", "GRPC_PORT" :> "8080", "GRPC_PORT" :> "50051"}

BootInit == NoCalls /\ proc \in {Started(env) : env \in Envs}

\* main down to the construction of server: port, and Addr ":" + port.
BootConfigure ==
    /\ proc.phase = "start"
    /\ proc' = [proc EXCEPT !.phase = "listen", !.port = PortOf(proc.env)]
    /\ UNCHANGED <<req, grpcServed, httpServed, resp, handlerVars, peerVars, wire>>

\* lis, err := net.Listen("tcp", ":"+port): the port is bound, or it is not
\* (taken, not permitted, not a port) and log.Fatalf ends the process with
\* status 1.
BootListen ==
    /\ proc.phase = "listen"
    /\ \/ proc' = [proc EXCEPT !.phase = "serving", !.addr = ":" \o proc.port]
       \/ proc' = [proc EXCEPT !.phase = "exited", !.exit = 1, !.by = "listen"]
    /\ UNCHANGED <<req, grpcServed, httpServed, resp, handlerVars, peerVars, wire>>

\* server.Serve(lis) accepts a connection and serves a request on it.
BootServe(c) ==
    /\ proc.phase = "serving"
    /\ ConcServe(c)

\* server.Serve(lis) returns: Accept failed for good.  Nothing calls Shutdown
\* or Close, so the error is never http.ErrServerClosed and log.Fatalf ends
\* the process with status 1.
BootServeFails ==
    /\ proc.phase = "serving"
    /\ proc' = [proc EXCEPT !.phase = "exited", !.exit = 1, !.by = "serve"]
    /\ UNCHANGED <<req, grpcServed, httpServed, resp, handlerVars, peerVars, wire>>

\* The process is terminated from outside.  main installs no signal handler:
\* the signal ends the process there and then (status 128 + SIGTERM, as a
\* shell reports it).
BootKilled ==
    /\ proc.phase # "exited"
    /\ proc' = [proc EXCEPT !.phase = "exited", !.exit = 143, !.by = "signal"]
    /\ UNCHANGED <<req, grpcServed, httpServed, resp, handlerVars, peerVars, wire>>

BootNext ==
    \/ BootConfigure
    \/ BootListen
    \/ \E c \in Calls : BootServe(c)
    \/ BootServeFails
    \/ BootKilled

BootSpec == BootInit /\ [][BootNext]_vars

\* ================================================================== claims

\* The request of call c has been served by the multiplexer.
Served(c) == req[c] # NoReq
RoutedToGRPC(c) == grpcServed[c] > 0
RoutedToREST(c) == httpServed[c] > 0

\* C1: a request is routed to the gRPC server if and only if it is HTTP/2 and
\* its Content-Type begins with "application/grpc"; so an HTTP/2 request with
\* that prefix never reaches the REST router, and a JSON POST (Content-Type
\* application/json, HTTP/1.1 or HTTP/2) never reaches the gRPC server.
C1_RoutingRule ==
    \A c \in Calls :
        Served(c) =>
            /\ RoutedToGRPC(c) <=>
                  (req[c].proto = 2 /\ HasPrefix(req[c].ctype, "application/grpc"))
            /\ (req[c].proto = 2 /\ HasPrefix(req[c].ctype, "application/grpc"))
                  => ~RoutedToREST(c)
            /\ (req[c].method = "POST" /\ req[c].ctype = "application/json")
                  => ~RoutedToGRPC(c)

\* An HTTP/2 request with a suffixed gRPC content type was handed to the gRPC
\* server and not to the router.
C1_Witness ==
    \E c \in Calls :
        /\ req[c].proto = 2 /\ req[c].ctype = "application/grpc+proto"
        /\ RoutedToGRPC(c) /\ ~RoutedToREST(c)

\* C2: every request accepted is dispatched to exactly one of the two
\* downstream handlers, never to both and never to neither.
C2_ExactlyOneHandler ==
    \A c \in Calls :
        Served(c) =>
            /\ grpcServed[c] + httpServed[c] = 1
            /\ RoutedToGRPC(c) # RoutedToREST(c)

\* An HTTP/1.1 request that carries the gRPC content type went to the router,
\* once, and not to the gRPC server.
C2_Witness ==
    \E c \in Calls :
        /\ req[c].proto = 1 /\ req[c].ctype = "application/grpc"
        /\ httpServed[c] = 1 /\ grpcServed[c] = 0 /\ resp[c] # NoResp

\* --- what a call did and what its peer was sent

IsH(f) == f.kind = "H"
IsM(f) == f.kind = "M"
IsT(f) == f.kind = "T"
\* The payload messages written to the client, in order.
Payloads(c) == SelectSeq(wire[c], IsM)
\* The positions of op in the history of call c.
OpsAt(c, op) == {k \in 1..Len(ops[c]) : ops[c][k] = op}
HeaderAttempts(c) == OpsAt(c, "SendHeader") \cup OpsAt(c, "SendHeader:err")
\* The call of c is over; Completed: over with a nil error.
Done(c) == method[c] # "" /\ pc[c] = "done"
Completed(c) == Done(c) /\ ret[c] = "nil"
\* In the frames written, every trailer frame comes after a header frame.
TrailerAfterHeader(c) ==
    \A k \in 1..Len(wire[c]) :
        IsT(wire[c][k]) => \E j \in 1..(k - 1) : IsH(wire[c][j])

\* C3: in every unary call (SayHello, SayGoodbye) exactly one reply is
\* produced; the header is sent before the reply is produced; the trailers are
\* set after the header and reach the client with or after the reply;
\* trailers are never observable before the header.
C3_UnaryOrder ==
    \A c \in Calls :
        method[c] \in UnaryMethods =>
            \* the calls of the method, in their one possible order
            /\ \E h \in {"SendHeader", "SendHeader:err"} :
                  \E n \in 0..3 : ops[c] = SubSeq(<<h, "SetTrailer", "Return">>, 1, n)
            \* one reply, and only at the return
            /\ Len(returned[c]) = (IF Done(c) THEN 1 ELSE 0)
            /\ Done(c) => ret[c] = "nil" /\ returned[c] = <<UnaryReplyOf(method[c], In(c))>>
            /\ Len(Payloads(c)) <= Len(returned[c])
            \* on the wire: header, then the reply, then the trailers
            /\ TrailerAfterHeader(c)
            /\ \A k \in 1..Len(wire[c]) :
                  /\ IsM(wire[c][k]) => k = 2 /\ IsH(wire[c][1])
                  /\ IsT(wire[c][k]) => k = 3 /\ IsM(wire[c][2])
            /\ (Done(c) /\ ~broken[c]) =>
                  wire[c] = << HFrame(HeaderOf(method[c])),
                               MFrame(UnaryReplyOf(method[c], In(c))),
                               TFrame(UnaryTrailerOf(method[c]), "OK") >>

\* A SayGoodbye call for "World" ended with header, reply and trailers sent.
C3_Witness ==
    \E c \in Calls :
        /\ method[c] = "SayGoodbye" /\ Done(c) /\ ~broken[c]
        /\ In(c) = "World"
        /\ Len(wire[c]) = 3
        /\ wire[c][2].msg = "Goodbye World! See you later!"

\* The message count the documentation gives for each server-streaming method.
DocumentedCount(m) == IF m = "SayHelloStream" THEN 5 ELSE 3

\* C4: a server-streaming call with N configured messages (SayHelloStream 5,
\* SayGoodbyeStream 3) whose sends all succeed emits exactly N payload
\* messages, in index order 1..N, followed by exactly one trailer whose
\* messages-sent field is N.
C4_ServerStreamCount ==
    \A c \in Calls :
        (method[c] \in ServerStreamMethods /\ Completed(c)) =>
            LET N == DocumentedCount(method[c]) IN
            /\ Len(Payloads(c)) = N
            /\ \A k \in 1..N :
                  Payloads(c)[k].msg = StreamReplyOf(method[c], In(c), k - 1)
            /\ method[c] = "SayHelloStream" =>
                  \A k \in 1..N :
                      Payloads(c)[k].msg =
                          "Hello " \o In(c) \o " - Message " \o ToString(k)
            \* the trailers are set once, after the last send
            /\ Cardinality(OpsAt(c, "SetTrailer")) = 1
            /\ \A k \in OpsAt(c, "Send") : \A t \in OpsAt(c, "SetTrailer") : k < t
            /\ MDGet(trailerMD[c], "messages-sent") = <<ToString(N)>>
            \* and, unless the peer is gone by then, written once as the last frame
            /\ Cardinality({k \in 1..Len(wire[c]) : IsT(wire[c][k])}) <= 1
            /\ ~broken[c] =>
                  /\ Len(wire[c]) = N + 2
                  /\ wire[c][N + 2] = TFrame(trailerMD[c], "OK")
                  /\ \A k \in 1..N : IsM(wire[c][k + 1])

\* A SayHelloStream call ended normally after its fifth message.
C4_Witness ==
    \E c \in Calls :
        /\ method[c] = "SayHelloStream" /\ Completed(c) /\ ~broken[c]
        /\ In(c) = "Bob"
        /\ Len(Payloads(c)) = 5
        /\ Payloads(c)[5].msg = "Hello Bob - Message 5"
        /\ IsT(wire[c][7])

\* C5: in a client-streaming call with k inputs (k >= 0) no reply is produced
\* before end-of-input, exactly one reply is produced after it, and the
\* names-processed trailer field lists all k inputs in arrival order.
C5_ClientStreamReply ==
    \A c \in Calls :
        method[c] \in ClientStreamMethods =>
            \* a reply only after Recv returned io.EOF, and never a second one
            /\ Len(Payloads(c)) <= 1
            /\ Payloads(c) # <<>> => OpsAt(c, "Recv:EOF") # {}
            /\ OpsAt(c, "SendAndClose") # {} => OpsAt(c, "Recv:EOF") # {}
            /\ \A e \in OpsAt(c, "Recv:EOF") : \A k \in OpsAt(c, "Recv") : k < e
            /\ Completed(c) =>
                  /\ Cardinality(OpsAt(c, "SendAndClose")) = 1
                  /\ Payloads(c) = <<MFrame(SummaryOf(method[c], inputs[c]))>>
            \* once end-of-input was seen, the trailers name every input, in order
            /\ trailerMD[c] # NoMD =>
                  /\ recvd[c] = Len(inputs[c])
                  /\ MDGet(trailerMD[c], "names-processed") = <<Join(inputs[c], ",")>>

\* A client-streaming call with the two inputs "World", "Bob" ended normally.
C5_Witness ==
    \E c \in Calls :
        /\ method[c] = "SayHelloClientStream" /\ Completed(c) /\ ~broken[c]
        /\ inputs[c] = <<"World", "Bob">>
        /\ MDGet(trailerMD[c], "names-processed") = <<"World,Bob">>
        /\ Len(Payloads(c)) = 1

\* C6: a bidirectional call with k inputs that ends by end-of-input without
\* transport error produces exactly k replies, and the i-th reply is the reply
\* to the i-th inbound message (its name, the index i); replies are never
\* reordered, merged or dropped.
C6_BidiOneToOne ==
    \A c \in Calls :
        method[c] \in BidiMethods =>
            \* at any time the replies written answer the first inputs, in order
            /\ Len(Payloads(c)) <= recvd[c]
            /\ \A k \in 1..Len(Payloads(c)) :
                  Payloads(c)[k].msg = BidiReplyOf(method[c], inputs[c][k], k)
            /\ method[c] = "SayHelloBidirectional" =>
                  \A k \in 1..Len(Payloads(c)) :
                      Payloads(c)[k].msg =
                          "Hello " \o inputs[c][k] \o "! (Message " \o ToString(k)
                              \o " received)"
            \* and after end-of-input there is one for every input
            /\ Completed(c) => Len(Payloads(c)) = Len(inputs[c])

\* A bidirectional call with the two inputs "Bob", "World" ended normally with
\* two replies.
C6_Witness ==
    \E c \in Calls :
        /\ method[c] = "SayGoodbyeBidirectional" /\ Completed(c) /\ ~broken[c]
        /\ inputs[c] = <<"Bob", "World">>
        /\ Len(Payloads(c)) = 2
        /\ Payloads(c)[2].msg = "Safe travels, World! (Farewell 2)"

\* The terminal outcome of a call that is over: an explicit error, or the
\* reply (unary, client-streaming), or the replies followed by the trailers
\* (server-streaming, bidirectional).
HasOutcome(c) ==
    \/ ret[c] = "err"
    \/ /\ ret[c] = "nil"
       /\ CASE method[c] \in UnaryMethods -> Len(returned[c]) = 1
            [] method[c] \in ClientStreamMethods -> OpsAt(c, "SendAndClose") # {}
            [] method[c] \in ServerStreamMethods ->
                 /\ Cardinality(OpsAt(c, "Send")) = DocumentedCount(method[c])
                 /\ OpsAt(c, "SetTrailer") # {}
            [] method[c] \in BidiMethods ->
                 /\ Cardinality(OpsAt(c, "Send")) = Len(inputs[c])
                 /\ OpsAt(c, "SetTrailer") # {}

\* The peer has signalled end-of-input or the transport reports an error; a
\* unary or server-streaming method waits for neither.
PeerLetsFinish(c) ==
    \/ method[c] \in UnaryMethods \cup ServerStreamMethods
    \/ closed[c]
    \/ broken[c]

\* C7: every call of each of the four shapes eventually reaches a terminal
\* outcome, provided the peer eventually signals end-of-input or the transport
\* reports an error; no method ends without its reply, its replies and
\* trailers, or an explicit error.
C7_EventuallyTerminal ==
    /\ [](\A c \in Calls : Done(c) => HasOutcome(c))
    /\ \A c \in Calls : (Running(c) /\ PeerLetsFinish(c)) ~> Done(c)

\* A bidirectional call whose client sent two messages and half-closed has
\* ended normally.
C7_Witness ==
    \E c \in Calls :
        /\ method[c] = "SayHelloBidirectional" /\ Done(c) /\ ret[c] = "nil"
        /\ closed[c] /\ ~broken[c] /\ Len(inputs[c]) = 2
        /\ HasOutcome(c)

\* C8: every method sends its header exactly once, as the first thing it does
\* and before the first reply payload; once the header is written, the header
\* metadata the caller has seen never changes and no second header send is
\* attempted.
C8_HeaderOnce ==
    /\ [](\A c \in Calls :
            method[c] # "" =>
                /\ Cardinality(HeaderAttempts(c)) <= 1
                /\ ops[c] # <<>> => 1 \in HeaderAttempts(c)
                /\ Cardinality({k \in 1..Len(wire[c]) : IsH(wire[c][k])}) <= 1
                /\ wire[c] # <<>> => wire[c][1] = HFrame(HeaderOf(method[c])))
    /\ [][\A c \in Calls :
            HeaderSent(c) =>
                /\ Len(wire'[c]) >= Len(wire[c])
                /\ wire'[c][1] = wire[c][1]
                /\ HeaderAttempts(c)' = HeaderAttempts(c)]_vars

\* A bidirectional call has written its header and then a reply.
C8_Witness ==
    \E c \in Calls :
        /\ method[c] = "SayHelloBidirectional"
        /\ Len(wire[c]) >= 2
        /\ wire[c][1] = HFrame(SayHelloBidirectionalHeader)
        /\ IsM(wire[c][2])
        /\ HeaderAttempts(c) = {1}

\* The positions in the history at which the method sends a payload message:
\* a Send, a SendAndClose, and the return of a unary method's reply.
PayloadOps(c) ==
    OpsAt(c, "Send") \cup OpsAt(c, "SendAndClose") \cup
    (IF method[c] \in UnaryMethods THEN OpsAt(c, "Return") ELSE {})

\* C9 as stated: in every call that completes normally the trailers are set
\* exactly once and no payload message is sent after the trailers have been
\* set.
C9_NoPayloadAfterSetTrailer ==
    \A c \in Calls :
        Completed(c) =>
            /\ Cardinality(OpsAt(c, "SetTrailer")) = 1
            /\ \A t \in OpsAt(c, "SetTrailer") : \A k \in PayloadOps(c) : k < t

\* C9, amended: in every call that completes normally the trailers are set
\* exactly once; they are written as the last frame, directly after the one
\* reply of a unary or client-streaming call (which is sent after they were
\* set) or after the last payload message of a stream; a server-streaming or
\* bidirectional method sends no payload after it has set the trailers, and no
\* frame ever follows the trailer frame.
C9_TrailersOnceAndLast ==
    \A c \in Calls :
        /\ \A k \in 1..Len(wire[c]) : IsT(wire[c][k]) => k = Len(wire[c])
        /\ Completed(c) =>
              /\ Cardinality(OpsAt(c, "SetTrailer")) = 1
              /\ trailerMD[c] # NoMD
              /\ method[c] \in ServerStreamMethods \cup BidiMethods =>
                    \A t \in OpsAt(c, "SetTrailer") : \A k \in PayloadOps(c) : k < t
              /\ method[c] \in UnaryMethods \cup ClientStreamMethods =>
                    /\ Cardinality(PayloadOps(c)) = 1
                    /\ \A t \in OpsAt(c, "SetTrailer") : \A k \in PayloadOps(c) : t < k
              /\ ~broken[c] =>
                    /\ wire[c][Len(wire[c])] = TFrame(trailerMD[c], "OK")
                    /\ method[c] \in UnaryMethods \cup ClientStreamMethods =>
                          IsM(wire[c][Len(wire[c]) - 1])

\* A client-streaming call ended normally: SetTrailer, then the one reply, and
\* the trailers as the last frame right after it.
C9_Witness ==
    \E c \in Calls :
        /\ method[c] = "SayGoodbyeClientStream" /\ Completed(c) /\ ~broken[c]
        /\ Len(inputs[c]) = 1
        /\ wire[c][Len(wire[c])] = TFrame(trailerMD[c], "OK")
        /\ IsM(wire[c][Len(wire[c]) - 1])
        /\ OpsAt(c, "SetTrailer") = {Len(ops[c]) - 1}

\* C10: in a server-streaming call, if sending the i-th message fails the
\* method aborts at once: it returns that error, sends none of the messages
\* i+1..N, performs no further pacing delay and does not set the trailers.
C10_SendFailureAborts ==
    \A c \in Calls :
        method[c] \in ServerStreamMethods =>
            \A k \in OpsAt(c, "Send:err") :
                /\ k = Len(ops[c])
                /\ Done(c) /\ ret[c] = "err"
                /\ OpsAt(c, "SetTrailer") = {} /\ trailerMD[c] = NoMD
                /\ \A j \in 1..Len(wire[c]) : ~IsT(wire[c][j])
                \* i[c] is the 0-based index of the message that failed
                /\ Cardinality(OpsAt(c, "Send")) = i[c]
                /\ Cardinality(OpsAt(c, "Sleep")) = i[c]
                /\ Len(Payloads(c)) = i[c]

\* The second message of a SayGoodbyeStream call failed to send.
C10_Witness ==
    \E c \in Calls :
        /\ method[c] = "SayGoodbyeStream"
        /\ OpsAt(c, "Send:err") # {}
        /\ i[c] = 1 /\ Len(Payloads(c)) = 1
        /\ ret[c] = "err"

\* The call of c made the failing call at position k of its history and
\* aborted there: nothing follows it, the error is returned, no trailers are
\* set and none are written.
AbortedAt(c, k) ==
    /\ k = Len(ops[c])
    /\ Done(c) /\ ret[c] = "err"
    /\ OpsAt(c, "SetTrailer") = {} /\ trailerMD[c] = NoMD
    /\ \A j \in 1..Len(wire[c]) : ~IsT(wire[c][j])

\* C11: in a client-streaming call no partial or incremental reply is produced
\* while inputs are collected, and a receive error other than end-of-input
\* aborts the call: the error is returned, no reply is sent and no trailers
\* are set, however many inputs were already collected.
C11_ClientStreamRecvError ==
    \A c \in Calls :
        method[c] \in ClientStreamMethods =>
            /\ pc[c] \in {"header", "recv", "trailer"} => Payloads(c) = <<>>
            /\ \A k \in OpsAt(c, "Recv:err") :
                  /\ AbortedAt(c, k)
                  /\ Payloads(c) = <<>>
                  /\ OpsAt(c, "SendAndClose") = {}
                  /\ OpsAt(c, "SendAndClose:err") = {}

\* A client-streaming call was aborted by a receive error after it had
\* collected one input.
C11_Witness ==
    \E c \in Calls :
        /\ method[c] = "SayHelloClientStream"
        /\ OpsAt(c, "Recv:err") # {}
        /\ messageCount[c] = 1 /\ names[c] = <<"Bob">>
        /\ ret[c] = "err"

\* C12: in a bidirectional call a transport error on either direction (a
\* receive error other than end-of-input, a failed reply send) aborts the
\* call: the method returns that error, sends no further reply and sets no
\* trailers.
C12_BidiTransportError ==
    \A c \in Calls :
        method[c] \in BidiMethods =>
            \A k \in OpsAt(c, "Recv:err") \cup OpsAt(c, "Send:err") :
                /\ AbortedAt(c, k)
                \* the replies written are those sent before the failure
                /\ Len(Payloads(c)) = Cardinality(OpsAt(c, "Send"))
                /\ \A j \in OpsAt(c, "Send") : j < k

\* The second reply of a bidirectional call failed to send, after the first
\* one went out.
C12_Witness ==
    \E c \in Calls :
        /\ method[c] = "SayGoodbyeBidirectional"
        /\ OpsAt(c, "Send:err") # {}
        /\ messageCount[c] = 2 /\ Len(Payloads(c)) = 1
        /\ ret[c] = "err"

\* After io.EOF at position e of the history the method left the receive
\* loop for good and went on to set the trailers, with stream-status completed.
LeftLoopAt(c, e) ==
    /\ \A k \in OpsAt(c, "Recv") \cup OpsAt(c, "Send") : k < e
    /\ OpsAt(c, "Recv:err") = {} /\ OpsAt(c, "Send:err") = {}
    /\ Len(ops[c]) > e =>
          /\ ops[c][e + 1] = "SetTrailer"
          /\ MDGet(trailerMD[c], "stream-status") = <<"completed">>
    /\ Done(c) => OpsAt(c, "SetTrailer") = {e + 1}

\* C13 as stated: in every method that receives a client stream, end-of-input
\* makes the method leave the loop, set the trailers with stream-status
\* completed and finish without an error; every other receive error aborts.
C13_EOFFinishesWithoutError ==
    \A c \in Calls :
        method[c] \in ClientStreamMethods \cup BidiMethods =>
            /\ \A e \in OpsAt(c, "Recv:EOF") :
                  /\ LeftLoopAt(c, e)
                  /\ Done(c) => ret[c] = "nil"
            /\ \A k \in OpsAt(c, "Recv:err") : AbortedAt(c, k)

\* C13, amended: end-of-input is never treated as a failure: the method
\* leaves the receive loop, sets the trailers with stream-status completed and
\* takes the normal way out, which for a bidirectional method is a nil return
\* and for a client-streaming method is the result of SendAndClose (an error
\* only if sending the reply itself fails); every other receive error takes
\* the abort path, and only end-of-input leads to the trailers.
C13_EOFIsNormalEnd ==
    \A c \in Calls :
        method[c] \in ClientStreamMethods \cup BidiMethods =>
            /\ \A e \in OpsAt(c, "Recv:EOF") :
                  /\ LeftLoopAt(c, e)
                  /\ (Done(c) /\ method[c] \in BidiMethods) => ret[c] = "nil"
                  /\ (Done(c) /\ method[c] \in ClientStreamMethods) =>
                        /\ ops[c][Len(ops[c])] \in {"SendAndClose", "SendAndClose:err"}
                        /\ ret[c] = "err" <=> OpsAt(c, "SendAndClose:err") # {}
                        /\ ret[c] = "err" => broken[c]
            /\ \A k \in OpsAt(c, "Recv:err") : AbortedAt(c, k)
            /\ OpsAt(c, "SetTrailer") # {} => OpsAt(c, "Recv:EOF") # {}

\* A client-streaming call whose client half-closed without sending anything
\* ended normally, with the trailers set right after io.EOF.
C13_Witness ==
    \E c \in Calls :
        /\ method[c] = "SayHelloClientStream" /\ Completed(c)
        /\ inputs[c] = <<>>
        /\ ops[c] = <<"SendHeader", "Recv:EOF", "SetTrailer", "SendAndClose">>
        /\ MDGet(trailerMD[c], "stream-status") = <<"completed">>

\* ------------------------------------------------------- the REST adapter

APIPaths == {"/api/hello", "/api/goodbye"}

\* The request of c reached the handler of an API route through the router.
APIRequest(c) == RoutedToREST(c) /\ req[c].path \in APIPaths

\* The unary method behind an API route.
UnaryOfRoute(path) == IF path = "/api/hello" THEN "SayHello" ELSE "SayGoodbye"

\* The body of a request is a JSON document, as a whole.
ValidJSON(body) == body.kind = "json"

\* The request carries a name the way its method prescribes: the query
\* parameter of a GET, the name field of the JSON body of a POST.
CarriesName(r) ==
    \/ r.method = "GET"
    \/ r.method = "POST" /\ ValidJSON(r.body)
SuppliedName(r) == IF r.method = "GET" THEN r.query ELSE GetName(r.body.obj)

\* Reading a response body back: a JSON object with the one field "message".
MessagePrefix == "{\"message\":\""
MessageSuffix == "}\n"
IsMessageBody(b) ==
    /\ HasPrefix(b, MessagePrefix)
    /\ LET r == ScanString(From(b, Len(MessagePrefix) + 1)) IN
       r.ok /\ r.rest = MessageSuffix
MessageOf(b) == ScanString(From(b, Len(MessagePrefix) + 1)).val

\* C14: for every non-empty name n, a successful GET or POST to /api/hello
\* (/api/goodbye) returns status 200 with a JSON message equal to the reply
\* of unary SayHello (SayGoodbye) for n, and the handler got it by invoking
\* that same function exactly once.  Every response with status 200 to a GET
\* or POST is such a success.
C14_RESTEqualsUnary ==
    \A c \in Calls :
        (APIRequest(c) /\ req[c].method \in {"GET", "POST"}) =>
            LET r == req[c]
                fn == UnaryOfRoute(r.path)
            IN  /\ (CarriesName(r) /\ SuppliedName(r) # "") =>
                      /\ resp[c].status = 200
                      /\ resp[c].invoked = <<[fn |-> fn, name |-> SuppliedName(r)]>>
                /\ resp[c].status = 200 =>
                      /\ Len(resp[c].invoked) = 1
                      /\ resp[c].invoked[1].fn = fn
                      /\ IsMessageBody(resp[c].body)
                      /\ MessageOf(resp[c].body) =
                            UnaryReplyOf(fn, resp[c].invoked[1].name)

\* POST /api/goodbye with {"name":"Bob"} answered with the reply of SayGoodbye.
C14_Witness ==
    \E c \in Calls :
        /\ APIRequest(c) /\ req[c].path = "/api/goodbye" /\ req[c].method = "POST"
        /\ req[c].body = [kind |-> "json", obj |-> "name" :> "Bob"]
        /\ resp[c].status = 200
        /\ resp[c].body = "{\"message\":\"Goodbye Bob! See you later!\"}\n"
        /\ resp[c].invoked = <<[fn |-> "SayGoodbye", name |-> "Bob"]>>

\* C15: on /api/hello and /api/goodbye a GET whose name query parameter is
\* missing or empty, and a POST whose JSON body has a missing or empty name
\* field, is not an error: the name is replaced by the default of the route
\* ("World", "Friend") and the response is 200 with the greeting or farewell
\* for that default.
C15_DefaultName ==
    \A c \in Calls :
        (/\ APIRequest(c) /\ req[c].method \in {"GET", "POST"}
         /\ CarriesName(req[c]) /\ SuppliedName(req[c]) = "") =>
            /\ resp[c].status = 200
            /\ req[c].path = "/api/hello" =>
                  /\ resp[c].invoked = <<[fn |-> "SayHello", name |-> "World"]>>
                  /\ resp[c].body = "{\"message\":\"Hello World\"}\n"
            /\ req[c].path = "/api/goodbye" =>
                  /\ resp[c].invoked = <<[fn |-> "SayGoodbye", name |-> "Friend"]>>
                  /\ resp[c].body =
                        "{\"message\":\"Goodbye Friend! See you later!\"}\n"

\* POST /api/goodbye with the body {} answered with the farewell for Friend.
C15_Witness ==
    \E c \in Calls :
        /\ APIRequest(c) /\ req[c].path = "/api/goodbye" /\ req[c].method = "POST"
        /\ req[c].body = [kind |-> "json", obj |-> NoFields]
        /\ resp[c].status = 200
        /\ MessageOf(resp[c].body) = "Goodbye Friend! See you later!"

\* C16 as stated: a REST POST whose body is not valid JSON yields a 400
\* client error and no further processing: the unary business function is
\* never called for that request and no success body is written.
C16_InvalidJSONRejected ==
    \A c \in Calls :
        (APIRequest(c) /\ req[c].method = "POST" /\ ~ValidJSON(req[c].body)) =>
            /\ resp[c].status = 400
            /\ resp[c].invoked = <<>>
            /\ ~IsMessageBody(resp[c].body)

\* C17 as stated: every response of the REST adapter, error responses (400,
\* 405, 500, not found) and preflight responses included, carries
\* Access-Control-Allow-Origin: *.
C17_EveryResponseHasCORS ==
    \A c \in Calls :
        RoutedToREST(c) =>
            /\ "Access-Control-Allow-Origin" \in DOMAIN resp[c].headers
            /\ resp[c].headers["Access-Control-Allow-Origin"] = "*"

\* C18: an OPTIONS request to /api/hello or /api/goodbye short-circuits: it is
\* answered with status 200 and an empty body, the request body is never
\* decoded and the unary business function is never invoked.
C18_PreflightShortCircuit ==
    \A c \in Calls :
        (APIRequest(c) /\ req[c].method = "OPTIONS") =>
            /\ resp[c].status = 200
            /\ resp[c].body = ""
            /\ resp[c].decoded = 0
            /\ resp[c].invoked = <<>>

\* OPTIONS /api/hello with a JSON body and a name in the query, answered 200
\* with nothing read and nothing called.
C18_Witness ==
    \E c \in Calls :
        /\ APIRequest(c) /\ req[c].path = "/api/hello" /\ req[c].method = "OPTIONS"
        /\ req[c].body = [kind |-> "json", obj |-> "name" :> "Bob"]
        /\ req[c].query = "Bob"
        /\ resp[c] = [status |-> 200, headers |-> APIHeaders, body |-> "",
                      invoked |-> <<>>, decoded |-> 0,
                      logged |-> <<L(462, "HTTP: Received SayHello request")>>]

\* The keys of the metadata the unary methods put in their headers and
\* trailers.
UnaryMetadataKeys ==
    UNION {DOMAIN HeaderOf(m) \cup DOMAIN UnaryTrailerOf(m) : m \in UnaryMethods}

ObservabilityHeaders == {"X-Server-Name", "X-Method", "X-Protocol", "X-Timestamp"}

C20_UnaryReplies ==
    \A c \in Calls :
        /\ method[c] \in UnaryMethods =>
              /\ ret[c] # "err"
              /\ Done(c) =>
                    /\ ret[c] = "nil"
                    /\ method[c] = "SayHello" =>
                          returned[c] = <<"Hello " \o In(c)>>
                    /\ method[c] = "SayGoodbye" =>
                          returned[c] = <<"Goodbye " \o In(c) \o "! See you later!">>
                    /\ (method[c] = "SayHello" /\ In(c) = "World") =>
                          returned[c] = <<"Hello World">>
                    /\ (method[c] = "SayGoodbye" /\ In(c) = "World") =>
                          returned[c] = <<"Goodbye World! See you later!">>
        /\ (RoutedToREST(c) /\ resp[c].invoked # <<>>) =>
              LET call == resp[c].invoked[1] IN
              /\ resp[c].status = 200
              /\ call.fn = "SayHello" =>
                    MessageOf(resp[c].body) = "Hello " \o call.name
              /\ call.fn = "SayGoodbye" =>
                    MessageOf(resp[c].body) =
                        "Goodbye " \o call.name \o "! See you later!"

\* A unary SayHello call with the name World returned "Hello World" and nil.
C20_Witness ==
    \E c \in Calls :
        /\ method[c] = "SayHello" /\ Completed(c)
        /\ In(c) = "World"
        /\ returned[c] = <<"Hello World">>

\* --------------------------------------------- client streaming, end to end

\* The text the documentation gives for the aggregate reply to inputs ns.
AggregateText(m, ns) ==
    IF m = "SayHelloClientStream"
    THEN "Hello to all " \o ToString(Len(ns)) \o " friends: " \o
         Join(ns, ", ") \o "!"
    ELSE "Farewell to all " \o ToString(Len(ns)) \o " wonderful people: " \o
         Join(ns, ", ") \o "! May your paths be bright!"

\* C21: for a client-streaming call with inputs n1..nk the single aggregate
\* reply contains all k names in received order, joined by ", ", together
\* with the count k; the messages-received trailer equals k; the trailers are
\* set before the reply closes the call (and travel after it, with the
\* status).  Alice, Bob, Charlie on the hello service give one reply naming
\* the three in that order and a trailer count of 3.
C21_ClientStreamAggregate ==
    /\ \A c \in Calls :
          method[c] \in ClientStreamMethods =>
              LET k == Len(inputs[c]) IN
              /\ \A t \in OpsAt(c, "SetTrailer") :
                    /\ recvd[c] = k /\ messageCount[c] = k /\ names[c] = inputs[c]
                    /\ MDGet(trailerMD[c], "messages-received") = <<ToString(k)>>
                    /\ \A s \in OpsAt(c, "SendAndClose") \cup
                                OpsAt(c, "SendAndClose:err") : t < s
              /\ OpsAt(c, "SendAndClose") # {} =>
                    /\ OpsAt(c, "SetTrailer") # {}
                    /\ Payloads(c) = <<MFrame(AggregateText(method[c], inputs[c]))>>
              /\ (Completed(c) /\ ~broken[c]) =>
                    /\ Len(wire[c]) = 3
                    /\ IsH(wire[c][1]) /\ IsM(wire[c][2]) /\ IsT(wire[c][3])
                    /\ wire[c][3].md = trailerMD[c]
    /\ SummaryOf("SayHelloClientStream", <<"Alice", "Bob", "Charlie">>) =
          "Hello to all 3 friends: Alice, Bob, Charlie!"
    /\ MDGet(ClientStreamTrailerOf("SayHelloClientStream", 3,
                                   <<"Alice", "Bob", "Charlie">>),
             "messages-received") = <<"3">>

\* A goodbye client-streaming call with the inputs Bob, World ended with the
\* farewell naming both in that order and a count of 2.
C21_Witness ==
    \E c \in Calls :
        /\ method[c] = "SayGoodbyeClientStream" /\ Completed(c) /\ ~broken[c]
        /\ inputs[c] = <<"Bob", "World">>
        /\ wire[c][2].msg =
              "Farewell to all 2 wonderful people: Bob, World! May your paths be bright!"
        /\ MDGet(wire[c][3].md, "messages-received") = <<"2">>

\* ------------------------------------------------- names across transports

\* What a caller writes for a name comes back as that name when the server
\* reads it: the query string, the JSON body, the request message in frames.
NameRoundTrips ==
    /\ \A n \in QueryNames : QueryGet(RawQueryOf(n), "name") = n
    /\ \A n \in JSONNames :
          BodyOfText(JSONBodyOf(n)) = [kind |-> "json", obj |-> "name" :> n]
    /\ \A n \in JSONNames : DecodedName(BodyOfText(JSONBodyOf(n))) = n
    /\ \A n \in FrameNames : GetName(ProtoFields(n)) = n

\* The default the documentation gives per service.
DefaultOf(fn) == IF fn \in HelloMethods THEN "World" ELSE "Friend"
OrDefault(fn, n) == IF n = "" THEN DefaultOf(fn) ELSE n

\* The greeting or farewell the unary business function makes of the name n.
UnaryText(fn, n) ==
    IF fn = "SayHello" THEN "Hello " \o n ELSE "Goodbye " \o n \o "! See you later!"

\* The REST adapter called the business function with the supplied name, the
\* route default standing in for an empty one.
RESTNameReachesLogic(c) ==
    (/\ APIRequest(c) /\ req[c].method \in {"GET", "POST"}
     /\ CarriesName(req[c])) =>
        LET fn == UnaryOfRoute(req[c].path) IN
        /\ resp[c].invoked =
              <<[fn |-> fn, name |-> OrDefault(fn, SuppliedName(req[c]))]>>
        /\ MessageOf(resp[c].body) = UnaryText(fn, OrDefault(fn, SuppliedName(req[c])))

\* C22 as stated: a name carried through either transport reaches the
\* business logic equal to the value the caller supplied; the empty string is
\* substituted with the documented default before the business logic runs, on
\* either transport.
C22_NameOrDefaultOnEitherTransport ==
    /\ NameRoundTrips
    /\ \A c \in Calls :
          /\ RESTNameReachesLogic(c)
          /\ (method[c] \in UnaryMethods /\ Done(c)) =>
                returned[c] =
                    <<UnaryText(method[c], OrDefault(method[c], In(c)))>>

\* C22, amended: a name carried through either transport reaches the business
\* logic equal to the value the caller supplied, the empty string included
\* when it comes over RPC framing; only the REST adapter substitutes the route
\* default for an empty or missing name before it calls the business logic.
C22_NameReachesLogic ==
    /\ NameRoundTrips
    /\ \A c \in Calls :
          /\ RESTNameReachesLogic(c)
          /\ (method[c] \in UnaryMethods /\ Done(c)) =>
                returned[c] = <<UnaryText(method[c], In(c))>>
          /\ (method[c] \in ServerStreamMethods /\ Payloads(c) # <<>>) =>
                Payloads(c)[1].msg = StreamReplyOf(method[c], In(c), 0)
          /\ method[c] \in ClientStreamMethods \cup BidiMethods =>
                names[c] = SubSeq(inputs[c], 1, recvd[c])

\* GET /api/hello with the odd name, escaped in the query string, answered
\* with the greeting for exactly that name.
C22_Witness ==
    \E c \in Calls :
        /\ APIRequest(c) /\ req[c].path = "/api/hello" /\ req[c].method = "GET"
        /\ req[c].query = QueryGet("name=J+%22%2B%5C", "name")
        /\ resp[c].invoked = <<[fn |-> "SayHello", name |-> "J \"+\\"]>>
        /\ resp[c].body = "{\"message\":\"Hello J \\\"+\\\\\"}\n"

\* ------------------------------------------------------ calls side by side

\* The method of d waits in stream.Recv() for its own peer.
WaitsForPeer(d) ==
    pc[d] = "recv" /\ ~RecvHasMessage(d) /\ ~RecvEOF(d) /\ ~RecvError(d)

\* C23: a pacing delay inside one streaming call suspends only that call:
\* while a call sleeps between messages, a new request is accepted and
\* served, every other call that does not wait for its own peer can take its
\* next step, and the other call completes even if the sleeping one never
\* wakes up.
C23_PacingSuspendsOnlyItsCall ==
    /\ [](\A c \in Calls : \A d \in Calls \ {c} :
            pc[c] = "sleep" =>
                /\ req[d] = NoReq => ENABLED ConcServe(d)
                /\ (Running(d) /\ ~WaitsForPeer(d)) => ENABLED HandlerStep(d))
    /\ (Running("c2") /\ PeerLetsFinish("c2")) ~> Done("c2")

\* The first call is in the pacing delay after its first message while the
\* second, a server-streaming call, has sent its five messages and ended.
C23_Witness ==
    /\ method["c1"] = "SayHelloStream" /\ pc["c1"] = "sleep"
    /\ ops["c1"] = <<"SendHeader", "Send">>
    /\ method["c2"] = "SayHelloStream" /\ Completed("c2")
    /\ Len(Payloads("c2")) = 5

\* What a client-streaming or bidirectional call has produced so far, as its
\* own inputs determine it when it runs alone.
SoloReplies(c) ==
    IF method[c] \in BidiMethods
    THEN [k \in 1..Len(Payloads(c)) |->
              MFrame(BidiReplyOf(method[c], inputs[c][k], k))]
    ELSE IF Payloads(c) = <<>> THEN <<>>
    ELSE <<MFrame(SummaryOf(method[c], inputs[c]))>>
SoloTrailer(c) ==
    IF method[c] \in BidiMethods
    THEN BidiTrailerOf(method[c], Len(inputs[c]), inputs[c])
    ELSE ClientStreamTrailerOf(method[c], Len(inputs[c]), inputs[c])

\* C24: no mutable state is shared across calls: when client-streaming or
\* bidirectional calls run concurrently, under any interleaving, the names
\* and the count a call has collected, its replies and its trailers are
\* determined by that call's own inputs alone and are what the call produces
\* when it runs alone.
C24_NoSharedState ==
    \A c \in Calls :
        method[c] \in ClientStreamMethods \cup BidiMethods =>
            /\ names[c] = SubSeq(inputs[c], 1, recvd[c])
            /\ messageCount[c] = recvd[c]
            /\ Len(Payloads(c)) <= recvd[c] + 1
            /\ Payloads(c) = SoloReplies(c)
            /\ trailerMD[c] # NoMD => trailerMD[c] = SoloTrailer(c)

\* A bidirectional and a client-streaming call are both in the middle of
\* their streams, each with the name its own client sent.
C24_Witness ==
    /\ method["c1"] = "SayHelloBidirectional" /\ pc["c1"] = "sleep"
    /\ names["c1"] = <<"Bob">> /\ Len(Payloads("c1")) = 1
    /\ method["c2"] = "SayHelloClientStream" /\ pc["c2"] = "recv"
    /\ names["c2"] = <<"World", "World">> /\ messageCount["c2"] = 2

\* ---------------------------------------------------------------------- C25

\* The replies the demo client is to receive: one per name it sends, in order.
DemoReplies(c) ==
    [k \in 1..Len(DemoNamesOf(method[c])) |->
        BidiReplyOf(method[c], DemoNamesOf(method[c])[k], k)]

\* The receive loop of the client has seen end-of-stream.
DemoEOF(c) == client[c].main = "eof"

\* C25: the demo client's sender goroutine and its receive loop, run against
\* the method's single loop, never block each other: whatever the
\* interleaving, and unless the network fails, the receive loop comes to
\* end-of-stream, and when it does it has received exactly one reply per name
\* sent, in order, the sender has finished and the method has returned nil.
C25_TwoTaskClientTerminates ==
    /\ [](\A c \in OneCall :
            DemoEOF(c) =>
                /\ client[c].replies = DemoReplies(c)
                /\ client[c].sender = "done"
                /\ Done(c) /\ ret[c] = "nil")
    /\ \A c \in OneCall : Running(c) ~> (DemoEOF(c) \/ broken[c])

\* The exchange has run to its end on a network that stayed up.
C25_Witness ==
    /\ DemoEOF("c1") /\ ~broken["c1"]
    /\ Len(client["c1"].replies) = Len(DemoNamesOf(method["c1"]))
    /\ closed["c1"]

\* ---------------------------------------------------------------------- C26

\* The last call the method of c made.
LastOp(c) == IF ops[c] = <<>> THEN "" ELSE ops[c][Len(ops[c])]

\* The methods with a pacing delay in their loop.
PacedMethods == ServerStreamMethods \cup BidiMethods

\* The calls at which a method finds out that the call was aborted.
AbortObserved == {"Send:err", "Recv:err", "SendAndClose:err"}

\* C26: cancellation does not reach a pacing delay.  The cancellation of a
\* call (Disconnect) changes nothing of its method; a method that sleeps
\* leaves the sleep only by the delay elapsing, cancelled or not, and goes on
\* to the next statement of its loop without returning; a method with a
\* delay returns an error only from a send or a receive that failed; and a send that succeeded
\* is followed by its delay, whatever happens to the call meanwhile.
C26_CancellationNotPropagatedIntoSleep ==
    /\ [][\A c \in Calls :
            /\ (broken'[c] # broken[c]) => UNCHANGED <<handlerVars, wire, demo>>
            /\ (pc[c] = "sleep" /\ pc'[c] # "sleep") =>
                   /\ ops'[c] = Append(ops[c], "Sleep")
                   /\ pc'[c] \in {"send", "recv", "trailer"}
                   /\ ret'[c] = "pending" /\ wire'[c] = wire[c]]_vars
    /\ [](\A c \in Calls :
            /\ pc[c] = "sleep" => ret[c] = "pending" /\ LastOp(c) = "Send"
            /\ (method[c] \in PacedMethods /\ ret[c] = "err") =>
                   LastOp(c) \in AbortObserved
            /\ \A k \in 1..(Len(ops[c]) - 1) :
                   ops[c][k] = "Send" => ops[c][k + 1] = "Sleep")

\* A bidirectional method slept through the cancellation of its call and
\* found out at the receive after the delay.
C26_Witness ==
    /\ method["c1"] \in BidiMethods /\ broken["c1"]
    /\ Len(ops["c1"]) >= 3
    /\ SubSeq(ops["c1"], Len(ops["c1"]) - 2, Len(ops["c1"])) =
           <<"Send", "Sleep", "Recv:err">>

\* ---------------------------------------------------------------------- C27

\* The lines of main.go inside the branches taken when a failure is detected:
\* if err := stream.Send(...); err != nil { return err }, the same after
\* stream.Recv(), and the http.Error branches for a body that does not decode
\* and for an error of the business function.
FailureBranches ==
    (110..112) \cup (160..162) \cup (214..216) \cup (225..227) \cup (310..312)
        \cup (364..366) \cup (427..429) \cup (439..441)
        \cup (486..489) \cup (504..507) \cup (547..550) \cup (565..568)

\* Serving call c, a streaming method detected a failed send or receive, or a
\* REST handler detected malformed JSON or an internal failure.
FailureDetected(c) ==
    \/ method[c] \notin UnaryMethods \cup {""} /\ ret[c] = "err"
    \/ resp[c].status \in {400, 500}

\* A log entry written where a failure was detected.
FailureLogged(c) ==
    \E k \in 1..Len(logs[c]) : logs[c][k].line \in FailureBranches

\* C27: all failures are logged at the point of detection: a streaming method
\* that has returned the error of a send or a receive, and a REST handler that
\* has answered malformed JSON or an internal failure, has written a log entry
\* for it.
C27_FailuresLogged ==
    \A c \in Calls : FailureDetected(c) => FailureLogged(c)

\* ---------------------------------------------------------------------- C28

\* sub occurs in s.
Contains(s, sub) ==
    \E k \in 1..(Len(s) - Len(sub) + 1) : SubSeq(s, k, k + Len(sub) - 1) = sub

\* The business function called for the request of c returned a failure.
BusinessFailed(c) ==
    httpServed[c] > 0 /\ returned[c] # <<>> /\ returned[c][1].err # "nil"

\* C28: when the business function returns a failure to an API handler, the
\* response has status 500 and the body "Internal server error", is no
\* success body, and neither its body nor any of its headers holds the text
\* of the error or the reply that came with it.  (With the outcome the
\* function has in this program, the handler answers as the router's handler
\* does.)
C28_BusinessFailureIs500 ==
    \A c \in OneCall :
        /\ BusinessFailed(c) =>
              LET out == returned[c][1] IN
              /\ resp[c].status = 500
              /\ resp[c].body = "Internal server error\n"
              /\ ~IsMessageBody(resp[c].body)
              /\ ~Contains(resp[c].body, out.err)
              /\ out.reply # "" => ~Contains(resp[c].body, out.reply)
              /\ \A k \in DOMAIN resp[c].headers :
                    ~Contains(resp[c].headers[k], out.err)
        /\ (httpServed[c] > 0 /\ returned[c] = <<RespondOutcome(req[c])>>) =>
              resp[c] = RouterServe(req[c])

\* A POST to /api/goodbye whose business function failed although it had a
\* reply.
C28_Witness ==
    /\ BusinessFailed("c1") /\ returned["c1"][1].reply # ""
    /\ req["c1"].method = "POST" /\ req["c1"].path = "/api/goodbye"
    /\ resp["c1"].status = 500

\* ---------------------------------------------------------------------- C29

\* The port the process is to use: GRPC_PORT, or 50051 when that is not set
\* or empty.
ConfiguredPort ==
    IF "GRPC_PORT" \in DOMAIN proc.env /\ proc.env["GRPC_PORT"] # ""
    THEN proc.env["GRPC_PORT"] ELSE "50051"

\* Once read, the port is the configured one, and it is the port bound.
PortAsConfigured ==
    /\ (proc.phase \in {"listen", "serving"} \/ proc.port # "") =>
          proc.port = ConfiguredPort
    /\ proc.addr # "" => proc.addr = ":" \o ConfiguredPort

\* A failed bind ends the process with a nonzero status before anything was
\* bound or served.
BindFailureFatal ==
    proc.by = "listen" =>
        /\ proc.phase = "exited" /\ proc.exit # 0
        /\ proc.addr = "" /\ \A c \in Calls : req[c] = NoReq

\* The process serves exactly while it is bound and has not exited.
ServesWhileUp == (proc.phase = "serving") = (proc.addr # "" /\ proc.by = "")

\* C29 as stated: the port is GRPC_PORT or 50051; a failed bind is fatal with
\* a nonzero status and nothing is served; otherwise the process serves until
\* it is terminated from outside, so a process that bound its port and has
\* exited was terminated from outside.
C29_ServesUntilTerminatedExternally ==
    /\ PortAsConfigured /\ BindFailureFatal /\ ServesWhileUp
    /\ (proc.phase = "exited" /\ proc.addr # "") => proc.by = "signal"

\* C29, amended: the port is GRPC_PORT or 50051; a failed bind is fatal with a
\* nonzero status and nothing is served; otherwise the process serves until
\* it is terminated from outside or until Serve itself fails, which ends the
\* process with status 1 as well; it never exits with status 0.
C29_ServesUntilTerminatedOrServeFails ==
    /\ PortAsConfigured /\ BindFailureFatal /\ ServesWhileUp
    /\ (proc.phase = "exited" /\ proc.addr # "") =>
          \/ proc.by = "signal"
          \/ proc.by = "serve" /\ proc.exit = 1
    /\ proc.phase = "exited" => proc.exit # 0

\* Started without GRPC_PORT, the process bound 50051, served a request and
\* then exited because Serve failed.
C29_Witness ==
    /\ proc.env = <<>> /\ proc.addr = ":50051"
    /\ req["c1"] # NoReq
    /\ proc.phase = "exited" /\ proc.by = "serve"

\* ---------------------------------------------------------------------- C30

\* The receives of the method of c, whatever they returned.
RecvAttempts(c) ==
    OpsAt(c, "Recv") \cup OpsAt(c, "Recv:EOF") \cup OpsAt(c, "Recv:err")

\* C30: a bidirectional method alternates receive and reply.  The replies it
\* has sent are as many as the messages it has received or one less, exactly
\* one less while the reply to the last message is due, and reply k answers
\* message k; every receive but the first comes directly after the delay that
\* followed a reply, and a message received is directly followed by the
\* sending of its reply.
C30_BidiStrictAlternation ==
    \A c \in Calls : method[c] \in BidiMethods =>
        LET sent == Len(Payloads(c)) IN
        /\ recvd[c] = Cardinality(OpsAt(c, "Recv"))
        /\ sent = Cardinality(OpsAt(c, "Send"))
        /\ sent \in {recvd[c], recvd[c] - 1}
        /\ pc[c] = "send" => sent = recvd[c] - 1
        /\ pc[c] \in {"sleep", "recv", "trailer", "return"} => sent = recvd[c]
        /\ \A k \in 1..sent :
              Payloads(c)[k].msg = BidiReplyOf(method[c], inputs[c][k], k)
        /\ \A k \in RecvAttempts(c) :
              /\ k > 1
              /\ ops[c][k - 1] \in {"SendHeader", "SendHeader:err", "Sleep"}
              /\ ops[c][k - 1] = "Sleep" => k > 2 /\ ops[c][k - 2] = "Send"
        /\ \A k \in OpsAt(c, "Recv") :
              k < Len(ops[c]) => ops[c][k + 1] \in {"Send", "Send:err"}

\* The second message has been received and the second reply is due.
C30_Witness ==
    /\ method["c1"] \in BidiMethods /\ pc["c1"] = "send"
    /\ recvd["c1"] = 2 /\ Len(Payloads("c1")) = 1

\* ---------------------------------------------------------------------- C31

\* The trailer key under which a bidirectional method reports its count.
ExchangedKey(m) ==
    IF m = "SayHelloBidirectional" THEN "messages-exchanged" ELSE "farewells-exchanged"

\* The call of c has seen end-of-input.
EndOfInput(c) == OpsAt(c, "Recv:EOF") # {}

\* C31: when a bidirectional call with k inputs ends by end-of-input, the
\* method then sets its trailers, once: the exchanged count in them is k,
\* which is the number of replies it sent, and names-processed lists the k
\* inputs in arrival order; it returns only after that, and the trailers go
\* out with the status as the last frame.
C31_BidiTrailersSummarise ==
    \A c \in Calls : (method[c] \in BidiMethods /\ EndOfInput(c)) =>
        LET k == Len(inputs[c]) IN
        /\ pc[c] \in {"trailer", "return", "done"}
        /\ recvd[c] = k /\ Len(Payloads(c)) = k
        /\ Cardinality(OpsAt(c, "Send")) = k
        /\ pc[c] = "trailer" => trailerMD[c] = NoMD /\ ret[c] = "pending"
        /\ pc[c] \in {"return", "done"} =>
              /\ Cardinality(OpsAt(c, "SetTrailer")) = 1
              /\ \A e \in OpsAt(c, "Recv:EOF") : \A t \in OpsAt(c, "SetTrailer") :
                    t = e + 1
              /\ MDGet(trailerMD[c], ExchangedKey(method[c])) = <<ToString(k)>>
              /\ MDGet(trailerMD[c], "names-processed") = <<Join(inputs[c], ",")>>
        /\ Done(c) =>
              /\ Completed(c)
              /\ SubSeq(ops[c], Len(ops[c]) - 2, Len(ops[c])) =
                    <<"Recv:EOF", "SetTrailer", "Return">>
              /\ ~broken[c] =>
                    wire[c][Len(wire[c])] = TFrame(trailerMD[c], "OK")

\* A SayGoodbyeBidirectional call with the inputs "Bob", "World" has ended by
\* end-of-input and gone out with its trailers.
C31_Witness ==
    /\ method["c1"] = "SayGoodbyeBidirectional" /\ Completed("c1") /\ ~broken["c1"]
    /\ inputs["c1"] = <<"Bob", "World">>
    /\ MDGet(trailerMD["c1"], "farewells-exchanged") = <<"2">>
    /\ MDGet(trailerMD["c1"], "names-processed") = <<"Bob,World">>
    /\ Len(Payloads("c1")) = 2

\* ---------------------------------------------------------------------- C32

\* The expected-messages value of the header frame the client got, <<>> when
\* the first frame is no header.
ExpectedMessages(c) ==
    IF wire[c] # <<>> /\ IsH(wire[c][1])
    THEN MDGet(wire[c][1].md, "expected-messages") ELSE <<>>

\* C32: in a server-streaming call the header, with its expected-messages
\* field, is on the wire before the first payload message, and in every call
\* that completes normally the expected-messages value equals the number of
\* payload messages sent and the messages-sent value of the trailers: 5 for
\* SayHelloStream, 3 for SayGoodbyeStream.
C32_ExpectedMessagesKept ==
    \A c \in Calls : method[c] \in ServerStreamMethods =>
        /\ Payloads(c) # <<>> =>
              /\ IsH(wire[c][1]) /\ Len(ExpectedMessages(c)) = 1
              /\ \A k \in 2..Len(wire[c]) : ~IsH(wire[c][k])
              /\ ops[c][1] = "SendHeader"
              /\ \A s \in OpsAt(c, "Send") : s > 1
        /\ Completed(c) =>
              /\ ExpectedMessages(c) = <<ToString(Len(Payloads(c)))>>
              /\ ExpectedMessages(c) = MDGet(trailerMD[c], "messages-sent")
              /\ ExpectedMessages(c) =
                    <<IF method[c] = "SayHelloStream" THEN "5" ELSE "3">>

\* A SayGoodbyeStream call has completed: header with expected-messages 3,
\* three messages, trailers with messages-sent 3.
C32_Witness ==
    /\ method["c1"] = "SayGoodbyeStream" /\ Completed("c1") /\ ~broken["c1"]
    /\ ExpectedMessages("c1") = <<"3">>
    /\ Len(Payloads("c1")) = 3
    /\ wire["c1"][Len(wire["c1"])].md = trailerMD["c1"]

\* ---------------------------------------------------------------------- C33

\* r matches one of the registered REST routes, path and method.
MatchesRoute(r) ==
    \/ r.path \in {"/api/hello", "/api/goodbye"} /\ r.method \in {"GET", "POST", "OPTIONS"}
    \/ r.path \in {"/health", "/api/doc", "/"} /\ r.method = "GET"

\* The path of r is registered, under whatever method.
KnownPath(r) == r.path \in {"/api/hello", "/api/goodbye", "/health", "/api/doc", "/"}

\* C33: a request that is not classified as gRPC and matches no registered
\* REST route is answered by the router itself: 405 when its path is
\* registered under other methods, 404 otherwise.  It goes to the router
\* once and never to the gRPC server, no service method runs, no handler is
\* entered (nothing is logged, nothing decoded) and no business function is
\* called.
C33_UnmatchedGetsRouterDefault ==
    \A c \in Calls :
        (Served(c) /\ ~IsGRPCRequest(req[c]) /\ ~MatchesRoute(req[c])) =>
            /\ grpcServed[c] = 0 /\ httpServed[c] = 1
            /\ method[c] = "" /\ ops[c] = <<>> /\ wire[c] = <<>>
            /\ resp[c].status = IF KnownPath(req[c]) THEN 405 ELSE 404
            /\ resp[c].invoked = <<>> /\ resp[c].decoded = 0
            /\ logs[c] = <<>>
            /\ ~IsMessageBody(resp[c].body)

\* An HTTP/1.1 POST of JSON to the path of a gRPC method was answered 404 by
\* the router.
C33_Witness ==
    /\ req["c1"].path = MethodPath("SayHello") /\ req["c1"].method = "POST"
    /\ req["c1"].proto = 1 /\ req["c1"].ctype = "application/json"
    /\ httpServed["c1"] = 1 /\ resp["c1"].status = 404

\* The attempts of main so far, the failed ones, and the unary calls.
Attempts == 1..Len(demo.hist)
Failed(k) == demo.hist[k].err # NoErr
UnaryAttempt(k) == demo.hist[k].op = "call" /\ demo.hist[k].m \in UnaryMethods

\* Nothing main attempted is attempted again: no call and no Send of a name
\* occurs twice, and a failed call or Send is followed by no call of the same
\* method and no Send on the same stream.
NeverRetried ==
    \A j, k \in Attempts :
        j < k /\ demo.hist[j].m = demo.hist[k].m /\ demo.hist[j].op = demo.hist[k].op
            => ~Failed(j) /\ demo.hist[j].arg # demo.hist[k].arg

\* A unary call that failed is the last thing main attempted; no call that
\* comes later in main has reached the server; and once the process has
\* ended, it has ended with status 1 after reporting the code and the message
\* of that failure.
FailedUnaryIsLast ==
    \A k \in Attempts :
        UnaryAttempt(k) /\ Failed(k) =>
            /\ k = Len(demo.hist)
            /\ demo.step = "err" \/ demo.phase = "exited"
            /\ demo.hist[k].m = "SayHello" => req["c2"] = NoReq
            /\ demo.phase = "exited" =>
                  /\ demo.exit = 1
                  /\ demo.report = [code |-> demo.hist[k].err.code,
                                    message |-> demo.hist[k].err.message]

\* C34: every unary call of the demo client runs under a deadline of one
\* second; a unary call that fails, by exceeding the deadline or otherwise,
\* is followed by the report of the failure's status code and message and the
\* end of the process, and by no later call; and no failed call or failed
\* Send is ever attempted again.
C34_UnaryFailureEndsClient ==
    /\ [](/\ \A k \in Attempts : UnaryAttempt(k) => demo.hist[k].deadline = 1
          /\ FailedUnaryIsLast
          /\ NeverRetried
          /\ \A c \in Calls : grpcServed[c] <= 1)
    /\ [][/\ demo.step = "err" /\ demo' # demo => demo'.phase = "exited"
          /\ demo.phase = "exited" => demo' = demo /\ req' = req]_vars

\* SayGoodbye exceeded its deadline after a Send of SayHelloBidirectional had
\* failed: the process has reported the status and ended.
C34_Witness ==
    /\ demo.phase = "exited" /\ demo.exit = 1
    /\ MainCalls[demo.at] = "SayGoodbye"
    /\ demo.report = [code |-> "DeadlineExceeded",
                      message |-> "context deadline exceeded"]
    /\ \E k \in Attempts :
          /\ demo.hist[k].op = "send" /\ Failed(k)
          /\ demo.hist[k].m = "SayHelloBidirectional"
    /\ req["c1"] # NoReq

\* The methods that collect the names they receive.
CollectingMethods == ClientStreamMethods \cup BidiMethods

\* The step is a stream.Recv() of call c that returned a message.
ReceivedMessage(c) == ops'[c] = Append(ops[c], "Recv")

\* C35: in the client-streaming and the bidirectional methods messageCount
\* equals the number of names collected; a Recv that returns a message adds
\* one to the counter and one name to the list, and no other step, the end of
\* the input and an error of Recv included, changes either.
C35_CountIsNumberOfNames ==
    /\ [](\A c \in Calls : method[c] \in CollectingMethods =>
              messageCount[c] = Len(names[c]))
    /\ [][\A c \in Calls : method[c] \in CollectingMethods =>
              IF ReceivedMessage(c)
              THEN /\ messageCount'[c] = messageCount[c] + 1
                   /\ Len(names'[c]) = Len(names[c]) + 1
                   /\ SubSeq(names'[c], 1, Len(names[c])) = names[c]
              ELSE /\ messageCount'[c] = messageCount[c]
                   /\ names'[c] = names[c]]_vars

\* A bidirectional call received two messages and then the end of the input.
C35_Witness ==
    /\ method["c1"] \in BidiMethods
    /\ messageCount["c1"] = 2 /\ Len(names["c1"]) = 2
    /\ LastOp("c1") = "Recv:EOF"

\* The client of call c is in stream.Header(), which has not returned.
InHeader(c) == method[c] \in CollectingMethods /\ client[c].main = "header"

\* The method of call c has called stream.Recv().
RecvCalled(c) == \E k \in 1..Len(ops[c]) : SubSeq(ops[c][k], 1, 4) = "Recv"

\* C36: on a client-streaming and on a bidirectional call the demo client
\* sends nothing before stream.Header() has returned, the method calls
\* SendHeader before its first Recv, and so the header frame is written while
\* the client has sent nothing and Header() always returns: the two sides do
\* not wait for each other.
C36_HeaderWaitCannotDeadlock ==
    /\ [](\A c \in OneCall :
            /\ InHeader(c) => inputs[c] = <<>> /\ ~closed[c]
            /\ method[c] \in CollectingMethods /\ RecvCalled(c) =>
                  /\ HeaderAttempts(c) # {}
                  /\ SubSeq(ops[c][1], 1, 10) = "SendHeader"
            /\ method[c] \in CollectingMethods /\ pc[c] \notin {"idle", "header"}
                  /\ ~broken[c] => Len(wire[c]) > 0 /\ IsH(wire[c][1]))
    /\ \A c \in OneCall : InHeader(c) ~> ~InHeader(c)

\* A client-streaming call whose client got the header before it had sent
\* anything, sent its names and was answered.
C36_Witness ==
    /\ method["c1"] = "SayHelloClientStream"
    /\ client["c1"].main = "eof" /\ ~broken["c1"]
    /\ inputs["c1"] = MainNamesOf("SayHelloClientStream")
    /\ ops["c1"][1] = "SendHeader" /\ ops["c1"][2] = "Recv"

\* The calls through which a method can come to return an error.
FallibleOps == {"Send:err", "Recv:err", "SendAndClose:err"}

\* C37: no method looks at the outcome of sending the header or setting the
\* trailers.  A method returns an error only from a Send or a Recv, never
\* from a failed SendHeader; a unary method whose SendHeader failed still sets
\* its trailers and returns its reply with a nil error; and a unary method
\* called by an API handler, on a context without a stream, returns its usual
\* reply, which the handler sends as JSON with status 200.
C37_HeaderTrailerOutcomeIgnored ==
    \A c \in Calls :
        /\ method[c] # "" =>
              /\ ret[c] = "err" => LastOp(c) \in FallibleOps
              /\ LastOp(c) \in {"SendHeader:err", "SetTrailer"} =>
                    pc[c] # "done" /\ ret[c] = "pending"
              /\ method[c] \in UnaryMethods /\ Done(c) =>
                    /\ ret[c] = "nil"
                    /\ returned[c] = <<UnaryReplyOf(method[c], In(c))>>
        /\ APIRequest(c) /\ resp[c].invoked # <<>> =>
              /\ Len(resp[c].invoked) = 1
              /\ resp[c].status = 200
              /\ resp[c].body =
                    EncodeMessage(UnaryReplyOf(resp[c].invoked[1].fn,
                                               resp[c].invoked[1].name))

\* GET /api/hello?name=Bob: SayHello ran without a stream and the response is
\* 200 with its reply.
C37_Witness ==
    /\ APIRequest("c1") /\ req["c1"].path = "/api/hello" /\ req["c1"].method = "GET"
    /\ resp["c1"].invoked = <<[fn |-> "SayHello", name |-> "Bob"]>>
    /\ resp["c1"].status = 200
    /\ resp["c1"].body = EncodeMessage("Hello Bob")

\* The first stream.Recv() of call c returned io.EOF: the client sent nothing.
ZeroInputs(c) == Len(ops[c]) >= 2 /\ ops[c][2] = "Recv:EOF"

\* The summary of no names.
EmptySummary(m) ==
    IF m = "SayHelloClientStream" THEN "Hello to all 0 friends: !"
    ELSE "Farewell to all 0 wonderful people: ! May your paths be bright!"

\* C38: when the end of the input is the first thing a method receives, a
\* client-streaming method still sends one reply, the summary of 0 names with
\* an empty list, and the trailer messages-received 0; a bidirectional method
\* sends no reply and returns nil, with an exchanged count of 0; and the
\* trailer names-processed is empty in both.
C38_ZeroInputs ==
    \A c \in Calls : (method[c] \in CollectingMethods /\ ZeroInputs(c)) =>
        /\ messageCount[c] = 0 /\ names[c] = <<>> /\ inputs[c] = <<>>
        /\ OpsAt(c, "SetTrailer") # {} =>
              /\ MDGet(trailerMD[c], "names-processed") = <<"">>
              /\ method[c] \in ClientStreamMethods =>
                    MDGet(trailerMD[c], "messages-received") = <<"0">>
              /\ method[c] \in BidiMethods =>
                    MDGet(trailerMD[c], ExchangedKey(method[c])) = <<"0">>
        /\ method[c] \in ClientStreamMethods =>
              /\ Len(Payloads(c)) <= 1
              /\ Completed(c) =>
                    /\ Payloads(c) = <<MFrame(EmptySummary(method[c]))>>
                    /\ wire[c][Len(wire[c])] = TFrame(trailerMD[c], "OK")
              /\ Done(c) /\ ~broken[c] => Completed(c)
        /\ method[c] \in BidiMethods =>
              /\ Payloads(c) = <<>>
              /\ OpsAt(c, "Send") \cup OpsAt(c, "Send:err") = {}
              /\ Done(c) => Completed(c)
              /\ Done(c) /\ ~broken[c] =>
                    wire[c] = <<HFrame(HeaderOf(method[c])), TFrame(trailerMD[c], "OK")>>

\* A SayGoodbyeClientStream call that was closed at once has been answered.
C38_Witness ==
    /\ method["c1"] = "SayGoodbyeClientStream"
    /\ ops["c1"] = <<"SendHeader", "Recv:EOF", "SetTrailer", "SendAndClose">>
    /\ Completed("c1")
    /\ Len(wire["c1"]) = 3
    /\ wire["c1"][2].msg = "Farewell to all 0 wonderful people: ! May your paths be bright!"

\* The farewell template of number t (0-based) filled in for a name, with the
\* count k appended, as the i-th reply carries it.
FarewellWith(t, name, k) ==
    farewellMessages[t + 1][1] \o name \o farewellMessages[t + 1][2]
        \o " (Farewell " \o ToString(k) \o ")"

\* C39: in SayGoodbyeBidirectional the k-th reply (k >= 1) is made from
\* farewell template number (k - 1) mod 5 of the five; that number is within
\* 0..4 however many messages come in, and the reply that comes five replies
\* later is made from the same template.
C39_FarewellTemplatesCycle ==
    /\ Len(farewellMessages) = 5
    /\ \A s, t \in 1..5 : s # t => farewellMessages[s] # farewellMessages[t]
    /\ \A c \in Calls : method[c] = "SayGoodbyeBidirectional" =>
          \A k \in 1..Len(Payloads(c)) :
              /\ (k - 1) % 5 \in 0..4
              /\ Payloads(c)[k].msg = FarewellWith((k - 1) % 5, inputs[c][k], k)
              /\ k > 5 =>
                    \E t \in 0..4 :
                        /\ Payloads(c)[k].msg = FarewellWith(t, inputs[c][k], k)
                        /\ Payloads(c)[k - 5].msg =
                              FarewellWith(t, inputs[c][k - 5], k - 5)

\* Seven farewells were sent: the sixth and the seventh use the first and the
\* second template again.
C39_Witness ==
    /\ method["c1"] = "SayGoodbyeBidirectional"
    /\ Len(Payloads("c1")) = 7
    /\ Payloads("c1")[1].msg = "Take care, Bob! (Farewell 1)"
    /\ Payloads("c1")[5].msg = "Goodbye and good luck, World! (Farewell 5)"
    /\ Payloads("c1")[6].msg = "Take care, Bob! (Farewell 6)"
    /\ Payloads("c1")[7].msg = "Safe travels, World! (Farewell 7)"

====
